---- MODULE Spec2Model ----
(***************************************************************************)
(* Model of the sampling core of regl-graphics (DeepField.js):             *)
(*   - CompositeShape (union / faulty_union / intersection / difference)   *)
(*     over Rectangle2D and Box3D children, with its rejection loops;      *)
(*   - Path1D (segment classification, lengths, LUT baking and sampling);  *)
(*   - RotatedShape and TranslatedShape over primitives, paths and         *)
(*     composites (quarter-turn rotations, integer offsets).               *)
(* Coordinates are integers (a grid inside the real-valued space of the    *)
(* program); Math.random() is a nondeterministic choice.  JavaScript's     *)
(* undefined and NaN are two reserved values with the arithmetic and       *)
(* comparison rules of the language.                                       *)
(***************************************************************************)
EXTENDS Integers, Sequences, FiniteSets

(***************************************************************************)
(* JavaScript values                                                       *)
(***************************************************************************)
\* the value of an absent field / out-of-range array element
Undefined == -9999
\* the result of arithmetic on undefined or NaN
NaN == -8888

IsNum(v) == v # Undefined /\ v # NaN

\* a ?? d
Coalesce(a, d) == IF a = Undefined THEN d ELSE a

\* a || d  (for numbers: 0, NaN and undefined are falsy)
OrElse(a, d) == IF a = Undefined \/ a = NaN \/ a = 0 THEN d ELSE a

JAdd(a, b) == IF IsNum(a) /\ IsNum(b) THEN a + b ELSE NaN

JSub(a, b) == IF IsNum(a) /\ IsNum(b) THEN a - b ELSE NaN

JMul(a, b) == IF IsNum(a) /\ IsNum(b) THEN a * b ELSE NaN

\* comparisons with undefined or NaN are false
JGt(a, b) == IsNum(a) /\ IsNum(b) /\ a > b

JLt(a, b) == IsNum(a) /\ IsNum(b) /\ a < b

JLe(a, b) == IsNum(a) /\ IsNum(b) /\ a <= b

\* Math.max / Math.min of two arguments
JMax(a, b) == IF IsNum(a) /\ IsNum(b) THEN (IF a >= b THEN a ELSE b) ELSE NaN

JMin(a, b) == IF IsNum(a) /\ IsNum(b) THEN (IF a <= b THEN a ELSE b) ELSE NaN

Abs(a) == IF a < 0 THEN -a ELSE a

SetMin(S) == CHOOSE m \in S : \A k \in S : m <= k

Point(px, py, pz) == [x |-> px, y |-> py, z |-> pz]

NoPoint == Point(Undefined, Undefined, Undefined)

(***************************************************************************)
(* Primitive shapes: Rectangle2D, Circle2D and Box3D.  Widths are even so  *)
(* that the half extents are integers.                                     *)
(***************************************************************************)
\* new Rectangle2D({x, y, z?}, width, height)
Rectangle2D(cx, cy, cz, width, height) ==
  [kind |-> "rect", cx |-> cx, cy |-> cy, cz |-> cz,
   width |-> width, height |-> height, depth |-> 0, radius |-> 0, innerRadius |-> 0]

\* new Circle2D({x, y, z?}, radius, innerRadius)
Circle2D(cx, cy, cz, radius, innerRadius) ==
  [kind |-> "circle", cx |-> cx, cy |-> cy, cz |-> cz,
   width |-> 0, height |-> 0, depth |-> 0, radius |-> radius, innerRadius |-> innerRadius]

\* new Box3D({x, y, z}, width, height, depth)
Box3D(cx, cy, cz, width, height, depth) ==
  [kind |-> "box", cx |-> cx, cy |-> cy, cz |-> cz,
   width |-> width, height |-> height, depth |-> depth, radius |-> 0, innerRadius |-> 0]

\* shape.area (absent on Box3D).  A circle's area is pi * (R^2 - r0^2); pi is
\* rounded to 3, which keeps the sign of the weight, the only thing the
\* weighted selection of a child depends on here.  The other objects (paths,
\* composites, wrappers) carry the field their constructor has set.
AreaOf(s) ==
  CASE s.kind = "rect" -> s.width * s.height
    [] s.kind = "circle" -> 3 * (s.radius * s.radius - s.innerRadius * s.innerRadius)
    [] s.kind = "box" -> Undefined
    [] OTHER -> s.area

\* shape.volume (absent on the 2D shapes)
VolumeOf(s) ==
  CASE s.kind = "box" -> s.width * s.height * s.depth
    [] s.kind \in {"rect", "circle"} -> Undefined
    [] OTHER -> s.volume

\* shape.center: the object handed to the constructor of a primitive
CenterOf(s) ==
  IF s.kind \in {"rect", "circle", "box"} THEN Point(s.cx, s.cy, s.cz) ELSE s.center

\* shape.bbox; a 2D shape's bbox carries no minZ / maxZ
BBoxOf(s) ==
  CASE s.kind = "rect" ->
         [minX |-> s.cx - s.width \div 2,  maxX |-> s.cx + s.width \div 2,
          minY |-> s.cy - s.height \div 2, maxY |-> s.cy + s.height \div 2,
          minZ |-> Undefined, maxZ |-> Undefined]
    [] s.kind = "circle" ->
         [minX |-> s.cx - s.radius, maxX |-> s.cx + s.radius,
          minY |-> s.cy - s.radius, maxY |-> s.cy + s.radius,
          minZ |-> Undefined, maxZ |-> Undefined]
    [] s.kind = "box" ->
         [minX |-> s.cx - s.width \div 2,  maxX |-> s.cx + s.width \div 2,
          minY |-> s.cy - s.height \div 2, maxY |-> s.cy + s.height \div 2,
          minZ |-> s.cz - s.depth \div 2,  maxZ |-> s.cz + s.depth \div 2]
    [] OTHER -> s.bbox

\* Math.abs(v - c) <= size / 2 + epsilon
WithinHalf(v, c, size, eps) == JLe(IF IsNum(v) THEN Abs(v - c) ELSE NaN, size \div 2 + eps)

\* dx * dx + dy * dy
DistSq(p, s) == JAdd(JMul(JSub(p.x, s.cx), JSub(p.x, s.cx)), JMul(JSub(p.y, s.cy), JSub(p.y, s.cy)))

\* shape.contains(p, epsilon) of a primitive
ContainsPrim(s, p, eps) ==
  CASE s.kind = "rect" ->
         WithinHalf(p.x, s.cx, s.width, eps) /\ WithinHalf(p.y, s.cy, s.height, eps)
    [] s.kind = "circle" ->
         /\ JLe(DistSq(p, s), s.radius * s.radius + eps)
         /\ JLe(s.innerRadius * s.innerRadius - eps, DistSq(p, s))
    [] OTHER ->
         /\ WithinHalf(p.x, s.cx, s.width, eps) /\ WithinHalf(p.y, s.cy, s.height, eps)
         /\ WithinHalf(p.z, s.cz, s.depth, eps)

\* faulty variant of Coord: the size taken as the half extent
CoordFullSize(c, size) == (c - size) .. (c + size)

\* c + (Math.random() - 0.5) * size, Math.random() in [0, 1); a negative
\* size mirrors the half-open interval
Coord(c, size) ==
  IF size > 0 THEN (c - size \div 2) .. (c + size \div 2 - 1)
  ELSE IF size < 0 THEN (c + size \div 2 + 1) .. (c - size \div 2)
  ELSE {c}

\* r * r for r = Math.sqrt(Math.random() * (rOuterSq - rInnerSq) + rInnerSq)
RadiusSq(s) ==
  IF s.radius * s.radius > s.innerRadius * s.innerRadius
  THEN (s.innerRadius * s.innerRadius) .. (s.radius * s.radius - 1)
  ELSE IF s.radius * s.radius < s.innerRadius * s.innerRadius
  THEN (s.radius * s.radius + 1) .. (s.innerRadius * s.innerRadius)
  ELSE {s.innerRadius * s.innerRadius}

\* the largest |r| that Circle2D.sample() can draw
RadiusReach(s) == IF Abs(s.radius) > Abs(s.innerRadius) THEN Abs(s.radius) ELSE Abs(s.innerRadius)

\* the points shape.sample() can return
SamplesOf(s) ==
  CASE s.kind = "rect" ->
         {Point(px, py, Coalesce(s.cz, 0)) :
            px \in Coord(s.cx, s.width), py \in Coord(s.cy, s.height)}
    [] s.kind = "circle" ->
         {Point(s.cx + dx, s.cy + dy, Coalesce(s.cz, 0)) :
            <<dx, dy>> \in {d \in (-RadiusReach(s) .. RadiusReach(s)) \X
                                   (-RadiusReach(s) .. RadiusReach(s)) :
                              d[1] * d[1] + d[2] * d[2] \in RadiusSq(s)}}
    [] OTHER ->
         {Point(px, py, pz) : px \in Coord(s.cx, s.width), py \in Coord(s.cy, s.height),
                              pz \in Coord(s.cz, s.depth)}

(***************************************************************************)
(* Bounds and the universe of constructed objects                          *)
(***************************************************************************)
\* largest number of children of a composite
MaxChildren == 3
\* largest value of options.maxAttempts
MaxAttemptsBound == 2

\* rect1 / rect2 of the union test, a covering rectangle (center with z), a
\* rectangle of width 0 (area 0) apart on Y, the outer and inner circle of the
\* donut test, and two boxes apart on Z
Prims ==
  { Rectangle2D(0, 0, Undefined, 2, 2), Rectangle2D(1, 0, Undefined, 2, 2),
    Rectangle2D(0, 0, 0, 4, 4),         Rectangle2D(0, 5, Undefined, 0, 2),
    Circle2D(0, 0, Undefined, 2, 0),    Circle2D(0, 0, Undefined, 1, 0),
    Box3D(0, 0, 0, 2, 2, 2),            Box3D(0, 0, 3, 2, 2, 2) }

\* lists of distinct children
ShapeLists ==
  UNION {{sq \in [1..n -> Prims] : \A i, j \in 1..n : i # j => sq[i] # sq[j]} : n \in 0..MaxChildren}

Types == {"union", "faulty_union", "intersection", "difference"}

\* points and tolerances handed to contains()
QueryPoints == {Point(px, py, pz) : px \in -2..2, py \in {-1, 0, 2}, pz \in {0, 1, NaN}}

Epsilons == {0, 1}

(***************************************************************************)
(* CompositeShape                                                          *)
(***************************************************************************)
VARIABLES type, shapes, maxAttempts, pc, attempt, draws, cand, result, query, answer

\* a Path1D object and its last sample() call
VARIABLES path, ps

\* a RotatedShape or TranslatedShape object and the last call made on it
VARIABLES wrapped, wcall

\* a primitive shape (sector, triangle, polygon, cone, rectangle, circle, box)
\* and the call in progress on it
VARIABLES prim, pcall

\* a tree of nested composites, the stack of its sample() activations, and
\* the value the last finished activation handed to its caller
VARIABLES tree, stack, ret

csgVars == <<type, shapes, maxAttempts, pc, attempt, draws, cand, result, query, answer>>

pathVars == <<path, ps>>

wrapVars == <<wrapped, wcall>>

primVars == <<prim, pcall>>

nestVars == <<tree, stack, ret>>

vars == <<type, shapes, maxAttempts, pc, attempt, draws, cand, result, query, answer,
          path, ps, wrapped, wcall,
         prim, pcall, tree, stack, ret>>

NoCand == [idx |-> 0, p |-> NoPoint]

NoResult == [kind |-> "none", p |-> NoPoint, msg |-> "", via |-> ""]

Returned(p, via) == [kind |-> "point", p |-> p, msg |-> "", via |-> via]

Thrown(msg) == [kind |-> "throw", p |-> NoPoint, msg |-> msg, via |-> ""]

NoQuery == [p |-> NoPoint, eps |-> 0]

\* faulty variant of CompositeContains: the negation of the difference dropped
CompositeContainsWithoutNot(t, ss, p, eps) ==
  CASE t \in {"union", "faulty_union"} -> \E i \in 1..Len(ss) : ContainsPrim(ss[i], p, eps)
    [] t = "intersection" -> \A i \in 1..Len(ss) : ContainsPrim(ss[i], p, eps)
    [] t = "difference" -> ContainsPrim(ss[1], p, eps) /\ ContainsPrim(ss[2], p, eps)
    [] OTHER -> FALSE

\* CompositeShape.contains(p, epsilon)
CompositeContains(t, ss, p, eps) ==
  CASE t \in {"union", "faulty_union"} -> \E i \in 1..Len(ss) : ContainsPrim(ss[i], p, eps)
    [] t = "intersection" -> \A i \in 1..Len(ss) : ContainsPrim(ss[i], p, eps)
    [] t = "difference" -> ContainsPrim(ss[1], p, eps) /\ ~ContainsPrim(ss[2], p, eps)
    [] OTHER -> FALSE

\* weights = shapes.map(s => s.area ?? s.volume ?? 1)
Weight(s) == Coalesce(AreaOf(s), Coalesce(VolumeOf(s), 1))

RECURSIVE CumWeight(_, _)
CumWeight(ss, n) == IF n = 0 THEN 0 ELSE CumWeight(ss, n - 1) + Weight(ss[n])

TotalWeight(ss) == CumWeight(ss, Len(ss))

\* r = Math.random() * totalWeight, in half units so that values strictly
\* between two integers are drawn too
RandomR2(total) == IF total > 0 THEN 0 .. (2 * total - 1) ELSE {0}

\* for (i ...) if ((r -= weights[i]) <= 0) { idx = i; break; }   (idx stays 0 otherwise)
PickIndex(ss, r2) ==
  LET hits == {i \in 1..Len(ss) : r2 - 2 * CumWeight(ss, i) <= 0}
  IN IF hits = {} THEN 1 ELSE SetMin(hits)

\* the indexes the weighted selection can produce
PickableIndexes(ss) == {PickIndex(ss, r2) : r2 \in RandomR2(TotalWeight(ss))}

\* faulty variant of CoveredByPrior: the scan starts at the second child
CoveredByPriorSkippingFirst(ss, idx, p) == \E j \in 2..(idx - 1) : ContainsPrim(ss[j], p, 0)

\* for (j = 0; j < idx; j++) if (shapes[j].contains(point)) coveredByPrior = true
CoveredByPrior(ss, idx, p) == \E j \in 1..(idx - 1) : ContainsPrim(ss[j], p, 0)

EmptyBBox ==
  [minX |-> Undefined, maxX |-> Undefined, minY |-> Undefined, maxY |-> Undefined,
   minZ |-> Undefined, maxZ |-> Undefined]

\* the reduce of sampleIntersection over the first n children
RECURSIVE IntersectionBBox(_, _)
IntersectionBBox(ss, n) ==
  IF n = 0 THEN EmptyBBox
  ELSE IF n = 1 THEN BBoxOf(ss[1])
  ELSE LET acc == IntersectionBBox(ss, n - 1)
           b == BBoxOf(ss[n])
       IN [minX |-> JMax(acc.minX, b.minX), maxX |-> JMin(acc.maxX, b.maxX),
           minY |-> JMax(acc.minY, b.minY), maxY |-> JMin(acc.maxY, b.maxY),
           minZ |-> JMax(Coalesce(acc.minZ, 0), Coalesce(b.minZ, 0)),
           maxZ |-> JMin(Coalesce(acc.maxZ, 0), Coalesce(b.maxZ, 0))]

\* faulty variant of BBoxDisjoint: the Y axis is not tested
BBoxDisjointIgnoringY(b) == JGt(b.minX, b.maxX) \/ JGt(b.minZ, b.maxZ)

\* if (bbox.minX > bbox.maxX || bbox.minY > bbox.maxY || (bbox.minZ > bbox.maxZ)) throw
BBoxDisjoint(b) == JGt(b.minX, b.maxX) \/ JGt(b.minY, b.maxY) \/ JGt(b.minZ, b.maxZ)

\* min + Math.random() * (max - min)
BoxCoord(min, max) ==
  IF ~(IsNum(min) /\ IsNum(max)) THEN {NaN}
  ELSE IF max > min THEN min .. (max - 1) ELSE {min}

BoxCandidates(b) ==
  {Point(px, py, pz) : px \in BoxCoord(b.minX, b.maxX), py \in BoxCoord(b.minY, b.maxY),
                       pz \in BoxCoord(b.minZ, b.maxZ)}

\* faulty variant of EveryContains: some() in place of every()
SomeContains(ss, p) == \E i \in 1..Len(ss) : ContainsPrim(ss[i], p, 0)

\* shapes.every(s => s.contains(p))
EveryContains(ss, p) == \A i \in 1..Len(ss) : ContainsPrim(ss[i], p, 0)

(***************************************************************************)
(* Path1D.  Lengths and coordinates are integers or exact rationals.       *)
(* Angles are counted in quarter turns, so that the cosine and sine of the *)
(* sampled angles are 0, 1 or -1.  A parametric function is applied to     *)
(* u = samples * t instead of t.                                           *)
(***************************************************************************)
\* lutResolution handed to the constructor
LutResolution == 4
\* largest number of segments of a path
MaxSegments == 3

\* 2 * Math.PI in quarter turns
TwoPi == 4

\* a rational n / d with d > 0; d = 0 stands for NaN (n = 0) or undefined (n = 1)
Q(n, d) == [n |-> n, d |-> d]

QNaN == Q(0, 0)

QUndef == Q(1, 0)

RECURSIVE Gcd(_, _)
Gcd(a, b) == IF b = 0 THEN a ELSE Gcd(b, a % b)

QNorm(n, d) ==
  IF d = 0 THEN QNaN
  ELSE LET g == Gcd(Abs(n), Abs(d))
           sg == IF d < 0 THEN -1 ELSE 1
       IN Q(sg * (n \div g), sg * (d \div g))

QInt(k) == IF IsNum(k) THEN Q(k, 1) ELSE QNaN

QIsNum(a) == a.d # 0

QAdd(a, b) == IF QIsNum(a) /\ QIsNum(b) THEN QNorm(a.n * b.d + b.n * a.d, a.d * b.d) ELSE QNaN

QMul(a, b) == IF QIsNum(a) /\ QIsNum(b) THEN QNorm(a.n * b.n, a.d * b.d) ELSE QNaN

QLe(a, b) == QIsNum(a) /\ QIsNum(b) /\ a.n * b.d <= b.n * a.d

\* Math.min / Math.max
QMin(a, b) == IF QIsNum(a) /\ QIsNum(b) THEN (IF QLe(a, b) THEN a ELSE b) ELSE QNaN

QMax(a, b) == IF QIsNum(a) /\ QIsNum(b) THEN (IF QLe(a, b) THEN b ELSE a) ELSE QNaN

QPoint(px, py, pz) == [x |-> px, y |-> py, z |-> pz]

\* Math.sqrt of a perfect square
ISqrt(v) == IF IsNum(v) THEN CHOOSE r \in 0..v : r * r = v ELSE NaN

\* a field of a segment descriptor: an object {x, y, z?}, a number, or absent
Obj(pt) == [t |-> "obj", pt |-> pt, v |-> 0]

NumV(v) == [t |-> "num", pt |-> NoPoint, v |-> v]

Undef == [t |-> "undef", pt |-> NoPoint, v |-> 0]

\* the truth value of a field in a condition such as (seg.start && seg.end)
Truthy(val) == val.t = "obj" \/ (val.t = "num" /\ val.v # 0)

\* val.x, val.y, val.z: undefined unless val is an object that has the coordinate
FieldOf(val, c) == IF val.t = "obj" THEN val.pt[c] ELSE Undefined

\* the number a numeric field holds
NumOf(val) == IF val.t = "num" THEN val.v ELSE IF val.t = "undef" THEN Undefined ELSE NaN

\* { start: {..}, end: {..} }
LineSeg(a, b) ==
  [start |-> Obj(a), end |-> Obj(b), center |-> Undef, radius |-> Undefined,
   f |-> "none", type |-> "", lut |-> <<>>, totalLength |-> Undefined, samples |-> Undefined]

\* { center: {..}, radius, start, end } with start / end angles (numbers or absent)
ArcSeg(c, radius, start, end) ==
  [start |-> start, end |-> end, center |-> Obj(c), radius |-> radius,
   f |-> "none", type |-> "", lut |-> <<>>, totalLength |-> Undefined, samples |-> Undefined]

\* a function (t) => ({x, y})
FnSeg(name) ==
  [start |-> Undef, end |-> Undef, center |-> Undef, radius |-> Undefined,
   f |-> name, type |-> "", lut |-> <<>>, totalLength |-> Undefined, samples |-> Undefined]

\* the parametric functions, as functions of u = samples * t, for t = u / samples:
\*   cubic: (t) => ({ x: (samples * t)^3, y: 0 })   (the test's t^3 * 100 rescaled)
\*   tent:  (t) => ({ x: |2 * samples * t - samples|, y: 0 })
\*   flat:  (t) => ({ x: 2 * max(0, samples * t - 1), y: 0 })
\*   peak:  (t) => ({ x: min(3 * samples * t, 4 - samples * t), y: 0 })
EvalX(name, u, samples) ==
  IF ~QIsNum(u) THEN QNaN
  ELSE CASE name = "cubic" -> QNorm(u.n * u.n * u.n, u.d * u.d * u.d)
         [] name = "tent" -> QNorm(Abs(2 * u.n - samples * u.d), u.d)
         [] name = "peak" -> IF u.n <= u.d THEN QNorm(3 * u.n, u.d) ELSE QNorm(4 * u.d - u.n, u.d)
         [] OTHER -> IF u.n <= u.d THEN Q(0, 1) ELSE QNorm(2 * (u.n - u.d), u.d)

\* f(t): the functions return no z
Eval(name, u, samples) == QPoint(EvalX(name, u, samples), Q(0, 1), QUndef)

\* Math.sqrt((curr.x-prev.x)**2 + (curr.y-prev.y)**2 + ...) between f((k-1)/samples) and f(k/samples)
Chord(name, k, samples) ==
  LET curr == EvalX(name, Q(k, 1), samples).n
      prev == EvalX(name, Q(k - 1, 1), samples).n
  IN ISqrt((curr - prev) * (curr - prev))

RECURSIVE LutEntry(_, _, _)
LutEntry(name, k, samples) ==
  IF k = 0 THEN 0 ELSE LutEntry(name, k - 1, samples) + Chord(name, k, samples)

\* Path1D._prebakeParametric(f, samples)
PrebakeParametric(name, samples) ==
  [start |-> Undef, end |-> Undef, center |-> Undef, radius |-> Undefined,
   f |-> name, type |-> "baked_parametric",
   lut |-> [k \in 0..samples |-> LutEntry(name, k, samples)],
   totalLength |-> LutEntry(name, samples, samples), samples |-> samples]

\* the branch the duck-typed conditions select for a segment
Classify(seg) ==
  IF seg.type = "baked_parametric" THEN "baked"
  ELSE IF Truthy(seg.start) /\ Truthy(seg.end) THEN "line"
  ELSE IF Truthy(seg.center) /\ OrElse(seg.radius, 0) # 0 THEN "arc"
  ELSE "none"

\* Math.sqrt((end.x-start.x)**2 + (end.y-start.y)**2 + ((end.z||0)-(start.z||0))**2)
LineLength(seg) ==
  LET dx == JSub(FieldOf(seg.end, "x"), FieldOf(seg.start, "x"))
      dy == JSub(FieldOf(seg.end, "y"), FieldOf(seg.start, "y"))
      dz == JSub(OrElse(FieldOf(seg.end, "z"), 0), OrElse(FieldOf(seg.start, "z"), 0))
  IN ISqrt(JAdd(JAdd(JMul(dx, dx), JMul(dy, dy)), JMul(dz, dz)))

\* delta = (end !== undefined ? end : 2 * Math.PI) - (start || 0); if (delta < 0) delta += 2 * Math.PI
ArcDelta(seg) ==
  LET end == IF seg.end.t # "undef" THEN NumOf(seg.end) ELSE TwoPi
      start == OrElse(NumOf(seg.start), 0)
      delta == JSub(end, start)
  IN IF JLt(delta, 0) THEN delta + TwoPi ELSE delta

\* Path1D._calculateLength(seg)
CalculateLength(seg) ==
  CASE Classify(seg) = "baked" -> seg.totalLength
    [] Classify(seg) = "line" -> LineLength(seg)
    [] Classify(seg) = "arc" -> JMul(seg.radius, ArcDelta(seg))
    [] OTHER -> 0

\* the parameters t = 0, 0.1, ... of the bbox estimation loop, as u = samples * t
BBoxProbes(samples) == {Q(samples * k, 10) : k \in 0..10}

RECURSIVE QFold(_, _, _)
\* Math.min (lo = TRUE) or Math.max over a non-empty set of values
QFold(S, lo, acc) ==
  IF S = {} THEN acc
  ELSE LET v == CHOOSE w \in S : TRUE
       IN QFold(S \ {v}, lo, IF lo THEN QMin(acc, v) ELSE QMax(acc, v))

QExtreme(S, lo) == LET v == CHOOSE w \in S : TRUE IN QFold(S \ {v}, lo, v)

\* what Path1D._updateBBox(seg) merges into the bbox
SegExtent(seg) ==
  CASE Classify(seg) = "line" ->
         [min |-> QPoint(QInt(JMin(FieldOf(seg.start, "x"), FieldOf(seg.end, "x"))),
                         QInt(JMin(FieldOf(seg.start, "y"), FieldOf(seg.end, "y"))),
                         QInt(JMin(OrElse(FieldOf(seg.start, "z"), 0), OrElse(FieldOf(seg.end, "z"), 0)))),
          max |-> QPoint(QInt(JMax(FieldOf(seg.start, "x"), FieldOf(seg.end, "x"))),
                         QInt(JMax(FieldOf(seg.start, "y"), FieldOf(seg.end, "y"))),
                         QInt(JMax(OrElse(FieldOf(seg.start, "z"), 0), OrElse(FieldOf(seg.end, "z"), 0))))]
    [] Classify(seg) = "arc" ->
         [min |-> QPoint(QInt(FieldOf(seg.center, "x") - seg.radius),
                         QInt(FieldOf(seg.center, "y") - seg.radius),
                         QInt(OrElse(FieldOf(seg.center, "z"), 0))),
          max |-> QPoint(QInt(FieldOf(seg.center, "x") + seg.radius),
                         QInt(FieldOf(seg.center, "y") + seg.radius),
                         QInt(OrElse(FieldOf(seg.center, "z"), 0)))]
    [] Classify(seg) = "baked" ->
         LET xs == {EvalX(seg.f, u, seg.samples) : u \in BBoxProbes(seg.samples)}
         IN [min |-> QPoint(QExtreme(xs, TRUE), Q(0, 1), Q(0, 1)),
             max |-> QPoint(QExtreme(xs, FALSE), Q(0, 1), Q(0, 1))]
    [] OTHER ->
         [min |-> QPoint(Q(0, 1), Q(0, 1), Q(0, 1)), max |-> QPoint(Q(0, 1), Q(0, 1), Q(0, 1))]

RECURSIVE PathBBox(_, _)
\* the bbox after _updateBBox of segments 0 .. n-1 (n >= 1)
PathBBox(segs, n) ==
  LET e == SegExtent(segs[n - 1])
  IN IF n = 1 THEN e
     ELSE LET acc == PathBBox(segs, n - 1)
          IN [min |-> QPoint(QMin(acc.min.x, e.min.x), QMin(acc.min.y, e.min.y), QMin(acc.min.z, e.min.z)),
              max |-> QPoint(QMax(acc.max.x, e.max.x), QMax(acc.max.y, e.max.y), QMax(acc.max.z, e.max.z))]

RECURSIVE CumulativeLength(_, _)
\* this.totalLength after the first n segments
CumulativeLength(segs, n) ==
  IF n = 0 THEN 0 ELSE JAdd(CumulativeLength(segs, n - 1), CalculateLength(segs[n - 1]))

QHalfSum(a, b) == QMul(QAdd(a, b), Q(1, 2))

\* new Path1D(descriptors, lutResolution); descriptors is a 0-based array
NewPath1D(descs, lutResolution) ==
  LET n == Cardinality(DOMAIN descs)
      segs == [i \in 0..(n - 1) |->
                 IF descs[i].f # "none" THEN PrebakeParametric(descs[i].f, lutResolution)
                 ELSE descs[i]]
      total == CumulativeLength(segs, n)
      zero == QPoint(Q(0, 1), Q(0, 1), Q(0, 1))
      bbox == IF total = 0 THEN [min |-> zero, max |-> zero] ELSE PathBBox(segs, n)
  IN [segments |-> segs,
      cumulativeLengths |-> [i \in 0..(n - 1) |-> CumulativeLength(segs, i + 1)],
      totalLength |-> total,
      bbox |-> bbox,
      center |-> QPoint(QHalfSum(bbox.min.x, bbox.max.x), QHalfSum(bbox.min.y, bbox.max.y),
                        QHalfSum(bbox.min.z, bbox.max.z))]

RECURSIVE Search(_, _, _, _)
\* faulty variant of Search: the comparison arr[mid] <= target, which passes
\* over an entry equal to the target
SearchPastEqual(arr, target, low, high) ==
  IF \E i \in low..(high - 1) : JGt(arr[i], target)
  THEN CHOOSE i \in low..(high - 1) :
         JGt(arr[i], target) /\ \A j \in low..(i - 1) : ~JGt(arr[j], target)
  ELSE high

\* while (low < high) { mid = (low + high) >>> 1; if (arr[mid] < target) low = mid + 1; else high = mid; }
Search(arr, target, low, high) ==
  IF low < high
  THEN LET mid == (low + high) \div 2
       IN IF JLt(arr[mid], target) THEN Search(arr, target, mid + 1, high)
          ELSE Search(arr, target, low, mid)
  ELSE low

\* faulty variant of SampleBaked: t taken proportional to the target, without the table
SampleBakedLinearT(seg, target) ==
  LET u == IF IsNum(target) /\ seg.totalLength > 0
           THEN QNorm(target * seg.samples, seg.totalLength) ELSE Q(0, 1)
  IN [cls |-> "baked", i |-> 1, u |-> u, pt |-> Eval(seg.f, u, seg.samples)]

\* Path1D._sampleBaked(seg, target)
SampleBaked(seg, target) ==
  LET low == Search(seg.lut, target, 0, seg.samples)
      i == IF low >= 1 THEN low ELSE 1
      d0 == seg.lut[i - 1]
      d1 == seg.lut[i]
      alpha == IF d1 - d0 <= 0 THEN Q(0, 1)
               ELSE IF IsNum(target) THEN QNorm(target - d0, d1 - d0) ELSE QNaN
      raw == QAdd(Q(i - 1, 1), alpha)
      u == QMax(Q(0, 1), QMin(Q(seg.samples, 1), raw))
  IN [cls |-> "baked", i |-> i, u |-> u, pt |-> Eval(seg.f, u, seg.samples)]

\* Path1D._sampleLine(seg, dist)
SampleLine(seg, dist) ==
  LET len == LineLength(seg)
      t == IF len = 0 THEN Q(0, 1)
           ELSE IF IsNum(len) /\ IsNum(dist) THEN QNorm(dist, len) ELSE QNaN
      sx == FieldOf(seg.start, "x")
      sy == FieldOf(seg.start, "y")
      sz == Coalesce(FieldOf(seg.start, "z"), 0)
      ez == Coalesce(FieldOf(seg.end, "z"), 0)
  IN [cls |-> "line", i |-> 0, u |-> t,
      pt |-> QPoint(QAdd(QInt(sx), QMul(t, QInt(JSub(FieldOf(seg.end, "x"), sx)))),
                    QAdd(QInt(sy), QMul(t, QInt(JSub(FieldOf(seg.end, "y"), sy)))),
                    QAdd(QInt(sz), QMul(t, QInt(JSub(ez, sz)))))]

\* Math.cos / Math.sin of k quarter turns
Cos4(k) == CASE k % 4 = 0 -> 1 [] k % 4 = 2 -> -1 [] OTHER -> 0

Sin4(k) == CASE k % 4 = 1 -> 1 [] k % 4 = 3 -> -1 [] OTHER -> 0

\* theta = start + t * delta with t = dist / (seg.radius * delta || 1)
ArcTheta(seg, dist) ==
  LET start == OrElse(NumOf(seg.start), 0)
      delta == ArcDelta(seg)
      t == IF IsNum(dist) THEN QNorm(dist, OrElse(JMul(seg.radius, delta), 1)) ELSE QNaN
  IN QAdd(QInt(start), QMul(t, QInt(delta)))

\* Path1D._sampleArc(seg, dist), for angles that are whole quarter turns
SampleArc(seg, dist) ==
  LET theta == ArcTheta(seg, dist)
      cx == FieldOf(seg.center, "x")
      cy == FieldOf(seg.center, "y")
  IN [cls |-> "arc", i |-> 0, u |-> theta,
      pt |-> IF QIsNum(theta)
             THEN QPoint(QInt(cx + seg.radius * Cos4(theta.n)), QInt(cy + seg.radius * Sin4(theta.n)),
                         QInt(Coalesce(FieldOf(seg.center, "z"), 0)))
             ELSE QPoint(QNaN, QNaN, QInt(Coalesce(FieldOf(seg.center, "z"), 0)))]

\* Path1D.sample() for target = Math.random() * this.totalLength
SamplePath(pth, target) ==
  IF pth.totalLength = 0 THEN [cls |-> "center", i |-> 0, u |-> Q(0, 1), pt |-> pth.center,
                               target |-> target, low |-> 0, local |-> 0]
  ELSE LET n == Cardinality(DOMAIN pth.segments)
           low == Search(pth.cumulativeLengths, target, 0, n - 1)
           seg == pth.segments[low]
           prevLength == IF low > 0 THEN pth.cumulativeLengths[low - 1] ELSE 0
           localTarget == JSub(target, prevLength)
           r == CASE Classify(seg) = "baked" -> SampleBaked(seg, localTarget)
                  [] Classify(seg) = "line" -> SampleLine(seg, localTarget)
                  [] Classify(seg) = "arc" -> SampleArc(seg, localTarget)
                  [] OTHER -> [cls |-> "center", i |-> 0, u |-> Q(0, 1), pt |-> pth.center]
       IN [cls |-> r.cls, i |-> r.i, u |-> r.u, pt |-> r.pt,
           target |-> target, low |-> low, local |-> localTarget]

\* the values of Math.random() * totalLength that are drawn; on an arc only
\* those that land on a whole quarter turn
Targets(pth) ==
  IF ~IsNum(pth.totalLength) THEN {NaN}
  ELSE {d \in 0..pth.totalLength :
          LET r == SamplePath(pth, d) IN r.cls = "arc" => r.u.d = 1}

\* the segment descriptors paths are built from
Descriptors ==
  { LineSeg(Point(0, 0, Undefined), Point(3, 0, Undefined)),
    LineSeg(Point(3, 0, 0), Point(3, 4, 0)),
    LineSeg(Point(1, 1, Undefined), Point(1, 1, Undefined)),
    ArcSeg(Point(0, 0, Undefined), 1, NumV(0), NumV(2)),
    ArcSeg(Point(3, 2, Undefined), 2, NumV(-1), NumV(1)),
    ArcSeg(Point(0, 0, Undefined), 1, NumV(3), NumV(1)),
    ArcSeg(Point(0, 0, 1), 1, NumV(3), NumV(0)),
    ArcSeg(Point(0, 0, Undefined), 2, Undef, Undef),
    FnSeg("cubic"), FnSeg("tent"), FnSeg("flat"), FnSeg("peak") }

\* lists of distinct descriptors, as 0-based arrays
DescriptorLists ==
  UNION {{a \in [0..(n - 1) -> Descriptors] : \A i, j \in 0..(n - 1) : i # j => a[i] # a[j]} :
           n \in 0..MaxSegments}

NoSample ==
  [cls |-> "none", i |-> 0, u |-> Q(0, 1), pt |-> QPoint(QUndef, QUndef, QUndef),
   target |-> 0, low |-> 0, local |-> 0]

\* the Path1D of the composite model: no segments
EmptyPath == NewPath1D(<<>>, LutResolution)

(***************************************************************************)
(* Shape objects as the wrappers see them: a primitive, a Path1D or a      *)
(* CompositeShape, each with center, bbox, volume / area, sample() and     *)
(* (except the path) contains().  Coordinates are integers here; a path or *)
(* composite is used as a base only when its center is integral.           *)
(***************************************************************************)
\* an integral rational, NaN or undefined as a number
QToNum(q) == IF q.d = 1 THEN q.n ELSE IF q = QUndef THEN Undefined ELSE NaN

QIsIntegral(q) == q.d \in {0, 1}

NumPoint(qp) == Point(QToNum(qp.x), QToNum(qp.y), QToNum(qp.z))

\* (a + b) / 2
HalfSum(a, b) == QHalfSum(QInt(a), QInt(b))

RECURSIVE CalculateBBoxUpTo(_, _, _)
\* the reduce of CompositeShape._calculateBBox over the first n children (n >= 1)
CalculateBBoxUpTo(t, ss, n) ==
  LET b == BBoxOf(ss[n])
      bzMin == Coalesce(b.minZ, 0)
      bzMax == Coalesce(b.maxZ, 0)
  IN IF n = 1 THEN [b EXCEPT !.minZ = bzMin, !.maxZ = bzMax]
     ELSE LET acc == CalculateBBoxUpTo(t, ss, n - 1)
          IN IF t = "intersection"
             THEN [minX |-> JMax(acc.minX, b.minX), maxX |-> JMin(acc.maxX, b.maxX),
                   minY |-> JMax(acc.minY, b.minY), maxY |-> JMin(acc.maxY, b.maxY),
                   minZ |-> JMax(acc.minZ, bzMin),  maxZ |-> JMin(acc.maxZ, bzMax)]
             ELSE [minX |-> JMin(acc.minX, b.minX), maxX |-> JMax(acc.maxX, b.maxX),
                   minY |-> JMin(acc.minY, b.minY), maxY |-> JMax(acc.maxY, b.maxY),
                   minZ |-> JMin(acc.minZ, bzMin),  maxZ |-> JMax(acc.maxZ, bzMax)]

\* CompositeShape._calculateBBox()
CalculateBBox(t, ss) ==
  IF Len(ss) = 0
  THEN [minX |-> 0, maxX |-> 0, minY |-> 0, maxY |-> 0, minZ |-> 0, maxZ |-> 0]
  ELSE IF t = "difference" THEN BBoxOf(ss[1])
  ELSE CalculateBBoxUpTo(t, ss, Len(ss))

\* this.center of a composite, from its bbox
CompositeCenter(t, ss) ==
  LET b == CalculateBBox(t, ss)
  IN QPoint(HalfSum(b.minX, b.maxX), HalfSum(b.minY, b.maxY), HalfSum(b.minZ, b.maxZ))

RECURSIVE MeasureSum(_, _)
\* shapes.reduce((sum, s) => sum + (s.volume ?? s.area ?? 0), 0) over the first n children
MeasureSum(ss, n) ==
  IF n = 0 THEN 0
  ELSE JAdd(MeasureSum(ss, n - 1), Coalesce(VolumeOf(ss[n]), Coalesce(AreaOf(ss[n]), 0)))

\* CompositeShape._calculateVolume(), for a composite whose constructor does not throw
CalculateVolume(t, ss) ==
  CASE t = "difference" ->
         QMax(Q(1, 1000), QMul(QInt(OrElse(VolumeOf(ss[1]), 1)), Q(7, 10)))
    [] t = "intersection" ->
         LET b == CalculateBBox(t, ss)
         IN QMul(QInt(JMul(JMul(JSub(b.maxX, b.minX), JSub(b.maxY, b.minY)),
                           OrElse(JSub(b.maxZ, b.minZ), 1))), Q(1, 2))
    [] OTHER -> QInt(MeasureSum(ss, Len(ss)))

\* the points sample() of a composite of primitives can return
CompositeSamples(t, ss, attempts) ==
  CASE Len(ss) = 0 -> {}
    [] t = "union" ->
         LET cands == {c \in [idx : PickableIndexes(ss), p : UNION {SamplesOf(ss[i]) : i \in 1..Len(ss)}] :
                         c.p \in SamplesOf(ss[c.idx])}
             rejected == {c \in cands : CoveredByPrior(ss, c.idx, c.p)}
         IN (IF attempts > 0 THEN {c.p : c \in cands \ rejected} ELSE {})
            \cup (IF attempts = 0 \/ rejected # {} THEN SamplesOf(ss[1]) ELSE {})
    [] t = "faulty_union" -> UNION {SamplesOf(ss[i]) : i \in PickableIndexes(ss)}
    [] t = "intersection" ->
         LET b == IntersectionBBox(ss, Len(ss))
         IN IF BBoxDisjoint(b) \/ attempts = 0 THEN {}
            ELSE {p \in BoxCandidates(b) : EveryContains(ss, p)}
    [] t = "difference" ->
         LET rejected == IF Len(ss) >= 2 THEN {p \in SamplesOf(ss[1]) : ContainsPrim(ss[2], p, 0)}
                         ELSE {}
         IN IF attempts = 0 \/ rejected # {} THEN SamplesOf(ss[1])
            ELSE IF Len(ss) >= 2 THEN SamplesOf(ss[1]) \ rejected
            ELSE {}
    [] OTHER -> {}

\* a CompositeShape object
CompositeShape(t, ss, attempts) ==
  [kind |-> "composite", type |-> t, shapes |-> ss, maxAttempts |-> attempts,
   bbox |-> CalculateBBox(t, ss),
   center |-> NumPoint(CompositeCenter(t, ss)),
   volume |-> QToNum(CalculateVolume(t, ss)),
   area |-> QToNum(CalculateVolume(t, ss))]

\* a Path1D object; this.volume = this.area = this.totalLength
PathShape(pth) ==
  [kind |-> "path", path |-> pth,
   bbox |-> [minX |-> QToNum(pth.bbox.min.x), maxX |-> QToNum(pth.bbox.max.x),
             minY |-> QToNum(pth.bbox.min.y), maxY |-> QToNum(pth.bbox.max.y),
             minZ |-> QToNum(pth.bbox.min.z), maxZ |-> QToNum(pth.bbox.max.z)],
   center |-> NumPoint(pth.center),
   volume |-> pth.totalLength,
   area |-> pth.totalLength]

\* the points path.sample() returns with integral coordinates
PathSamples(pth) ==
  {NumPoint(r.pt) : r \in {q \in {SamplePath(pth, d) : d \in Targets(pth)} :
                             QIsIntegral(q.pt.x) /\ QIsIntegral(q.pt.y) /\ QIsIntegral(q.pt.z)}}

(***************************************************************************)
(* RotatedShape and TranslatedShape.  Rotation angles are counted in       *)
(* quarter turns, so the matrix entries are 0, 1 or -1.                    *)
(***************************************************************************)
\* the initial values of the minimum / maximum scans of _calculateRotatedBBox
Infinity == 9998

NegInfinity == -9998

NoOffset == Point(0, 0, 0)

NoMatrix ==
  [m00 |-> 0, m01 |-> 0, m02 |-> 0, m10 |-> 0, m11 |-> 0, m12 |-> 0,
   m20 |-> 0, m21 |-> 0, m22 |-> 0]

\* the matrix the RotatedShape constructor computes from pitch, yaw, roll
RotationMatrix(pitch, yaw, roll) ==
  LET cp == Cos4(pitch)  sp == Sin4(pitch)
      cy == Cos4(yaw)    sy == Sin4(yaw)
      cr == Cos4(roll)   sr == Sin4(roll)
  IN [m00 |-> cy * cr,                  m01 |-> -cy * sr,                 m02 |-> sy,
      m10 |-> sp * sy * cr + cp * sr,   m11 |-> -sp * sy * sr + cp * cr,  m12 |-> -sp * cy,
      m20 |-> -cp * sy * cr + sp * sr,  m21 |-> cp * sy * sr + sp * cr,   m22 |-> cp * cy]

\* a * ma + b * mb + c * mc + o
Dot3(a, ma, b, mb, c, mc, o) == JAdd(JAdd(JAdd(JMul(a, ma), JMul(b, mb)), JMul(c, mc)), o)

\* the point RotatedShape.sample() makes of the base's sample p (also used
\* on the corners of the base bbox)
RotateForward(m, c, p) ==
  LET dx == JSub(p.x, c.x)
      dy == JSub(p.y, c.y)
      dz == JSub(p.z, c.z)
  IN Point(Dot3(dx, m.m00, dy, m.m01, dz, m.m02, c.x),
           Dot3(dx, m.m10, dy, m.m11, dz, m.m12, c.y),
           Dot3(dx, m.m20, dy, m.m21, dz, m.m22, c.z))

\* localP of RotatedShape.contains(p)
RotateInverse(m, c, p) ==
  LET dx == JSub(p.x, c.x)
      dy == JSub(p.y, c.y)
      dz == JSub(p.z, c.z)
  IN Point(Dot3(dx, m.m00, dy, m.m10, dz, m.m20, c.x),
           Dot3(dx, m.m01, dy, m.m11, dz, m.m21, c.y),
           Dot3(dx, m.m02, dy, m.m12, dz, m.m22, c.z))

\* if (r < min) min = r over the values, from Infinity; NaN moves nothing
ScanMin(S) == LET nums == {v \in S : IsNum(v)} IN IF nums = {} THEN Infinity ELSE SetMin(nums)

\* if (r > max) max = r over the values, from -Infinity
ScanMax(S) == LET nums == {v \in S : IsNum(v)} IN IF nums = {} THEN NegInfinity ELSE -SetMin({-v : v \in nums})

\* RotatedShape._calculateRotatedBBox()
CalculateRotatedBBox(b, m, c) ==
  LET zMin == Coalesce(b.minZ, c.z)
      zMax == Coalesce(b.maxZ, c.z)
      corners == {RotateForward(m, c, Point(px, py, pz)) :
                    px \in {b.minX, b.maxX}, py \in {b.minY, b.maxY}, pz \in {zMin, zMax}}
  IN [minX |-> ScanMin({r.x : r \in corners}), maxX |-> ScanMax({r.x : r \in corners}),
      minY |-> ScanMin({r.y : r \in corners}), maxY |-> ScanMax({r.y : r \in corners}),
      minZ |-> ScanMin({r.z : r \in corners}), maxZ |-> ScanMax({r.z : r \in corners})]

\* new RotatedShape(baseShape, pitch, yaw, roll); the object has no area field
RotatedShape(base, pitch, yaw, roll) ==
  [kind |-> "rotated", base |-> base, offset |-> NoOffset,
   m |-> RotationMatrix(pitch, yaw, roll),
   center |-> CenterOf(base),
   volume |-> VolumeOf(base),
   area |-> Undefined,
   bbox |-> CalculateRotatedBBox(BBoxOf(base), RotationMatrix(pitch, yaw, roll), CenterOf(base))]

\* new TranslatedShape(baseShape, dx, dy, dz), for a base that has center and bbox
TranslatedShape(base, dx, dy, dz) ==
  LET c == CenterOf(base)
      b == BBoxOf(base)
      center == Point(JAdd(c.x, dx), JAdd(c.y, dy), JAdd(Coalesce(c.z, 0), dz))
  IN [kind |-> "translated", base |-> base, offset |-> Point(dx, dy, dz),
      m |-> NoMatrix,
      center |-> center,
      volume |-> VolumeOf(base),
      area |-> AreaOf(base),
      bbox |-> [minX |-> JAdd(b.minX, dx), maxX |-> JAdd(b.maxX, dx),
                minY |-> JAdd(b.minY, dy), maxY |-> JAdd(b.maxY, dy),
                minZ |-> JAdd(Coalesce(b.minZ, center.z), dz),
                maxZ |-> JAdd(Coalesce(b.maxZ, center.z), dz)]]

\* faulty variant of TranslateSample: the shifted center added in place of the offset
TranslateSampleByCenter(s, p) ==
  Point(JAdd(p.x, s.center.x), JAdd(p.y, s.center.y), JAdd(Coalesce(p.z, 0), s.center.z))

\* the point TranslatedShape.sample() makes of the base's sample p
TranslateSample(s, p) ==
  Point(JAdd(p.x, s.offset.x), JAdd(p.y, s.offset.y), JAdd(Coalesce(p.z, 0), s.offset.z))

\* localP of TranslatedShape.contains(p)
TranslateLocal(s, p) ==
  Point(JSub(p.x, s.offset.x), JSub(p.y, s.offset.y), JSub(Coalesce(p.z, 0), s.offset.z))

\* the object has a contains method (Path1D has none)
HasContains(s) == s.kind # "path"

RECURSIVE Innermost(_)
\* the shape at the bottom of a chain of wrappers
Innermost(s) == IF s.kind \in {"rotated", "translated"} THEN Innermost(s.base) ELSE s

\* the points sample() of an unwrapped shape can return
BaseSamples(s) ==
  CASE s.kind = "path" -> PathSamples(s.path)
    [] s.kind = "composite" -> CompositeSamples(s.type, s.shapes, s.maxAttempts)
    [] OTHER -> SamplesOf(s)

RECURSIVE SampleVia(_, _)
\* what s.sample() returns when the sample() of the innermost shape returns q
SampleVia(s, q) ==
  CASE s.kind = "rotated" -> RotateForward(s.m, s.center, SampleVia(s.base, q))
    [] s.kind = "translated" -> TranslateSample(s, SampleVia(s.base, q))
    [] OTHER -> q

RECURSIVE ContainsThrows(_)
\* s.contains(p) ends in a TypeError: a RotatedShape calls this.base.contains
\* unguarded, a TranslatedShape returns false when its base has no such method
ContainsThrows(s) ==
  CASE s.kind = "rotated" -> ~HasContains(s.base) \/ ContainsThrows(s.base)
    [] s.kind = "translated" -> HasContains(s.base) /\ ContainsThrows(s.base)
    [] OTHER -> FALSE

RECURSIVE ShapeContains(_, _, _)
\* s.contains(p, epsilon), for a call that does not throw
ShapeContains(s, p, eps) ==
  CASE s.kind = "rotated" -> ShapeContains(s.base, RotateInverse(s.m, s.center, p), eps)
    [] s.kind = "translated" ->
         HasContains(s.base) /\ ShapeContains(s.base, TranslateLocal(s, p), eps)
    [] s.kind = "composite" -> CompositeContains(s.type, s.shapes, p, eps)
    [] s.kind = "path" -> FALSE
    [] OTHER -> ContainsPrim(s, p, eps)

\* the shapes that are wrapped: a rectangle whose center has no z, a
\* rectangle whose center has one, a ring, a box, a path of one line, a path
\* of one function that returns no z, and a union of a rectangle and a box
WrapBases ==
  { Rectangle2D(1, 0, Undefined, 2, 2),
    Rectangle2D(0, 0, 1, 2, 4),
    Circle2D(0, 0, Undefined, 2, 1),
    Box3D(0, 0, 3, 2, 2, 2),
    PathShape(NewPath1D([i \in 0..0 |-> LineSeg(Point(3, 0, 0), Point(3, 4, 0))], LutResolution)),
    PathShape(NewPath1D([i \in 0..0 |-> FnSeg("flat")], LutResolution)),
    CompositeShape("union", <<Rectangle2D(1, 0, Undefined, 2, 2), Box3D(1, 0, 1, 2, 2, 2)>>, 1) }

\* pitch, yaw, roll in quarter turns
QuarterTurns == 0..3

\* the translation vectors
Offsets == {Point(dx, dy, dz) : dx \in {0, 1}, dy \in {0, -2}, dz \in {0, 3}}

\* the wrappers under test: a rotation, a translation, a translation of a translation
Wrappers ==
  {RotatedShape(b, pitch, yaw, roll) : b \in WrapBases, pitch \in QuarterTurns,
                                       yaw \in QuarterTurns, roll \in QuarterTurns}
  \cup {TranslatedShape(b, v.x, v.y, v.z) : b \in WrapBases, v \in Offsets}
  \cup {TranslatedShape(TranslatedShape(b, v.x, v.y, v.z), w.x, w.y, w.z) :
          b \in WrapBases, v \in Offsets, w \in Offsets}

\* the points handed to contains() of a wrapper; a 2D point has no z
WrapQueryPoints ==
  {Point(px, py, pz) : px \in -1..3, py \in {-3, -1, 0, 1, 2}, pz \in {0, 1, 3, 6, 9, Undefined}}

NoWrapper ==
  [kind |-> "none", base |-> NoPoint, offset |-> NoOffset, m |-> NoMatrix, center |-> NoPoint,
   volume |-> Undefined, area |-> Undefined, bbox |-> EmptyBBox]

NoCall ==
  [op |-> "none", q |-> NoPoint, p |-> NoPoint, eps |-> 0, out |-> NoPoint,
   ans |-> FALSE, threw |-> FALSE]

\* no primitive under test, no call on it
NoPrim == [kind |-> "none"]

NoPrimCall ==
  [op |-> "none", attempts |-> 0, idx |-> 0, u |-> Q(0, 1), v |-> Q(0, 1),
   out |-> QPoint(QUndef, QUndef, QUndef), threw |-> FALSE, via |-> ""]

\* no tree of composites, nothing returned
NoTree == [kind |-> "none"]

NoRet == [kind |-> "none", p |-> NoPoint, msg |-> "", draws |-> 0]

Init ==
  /\ type \in Types
  /\ shapes \in ShapeLists
  /\ maxAttempts \in 0..MaxAttemptsBound
  /\ pc = "new"
  /\ attempt = 0
  /\ draws = 0
  /\ cand = NoCand
  /\ result = NoResult
  /\ query = NoQuery
  /\ answer = FALSE
  /\ path = EmptyPath
  /\ ps = NoSample
  /\ wrapped = NoWrapper
  /\ wcall = NoCall
  /\ prim = NoPrim
  /\ pcall = NoPrimCall
  /\ tree = NoTree
  /\ stack = <<>>
  /\ ret = NoRet

\* _calculateVolume reads this.shapes[0].volume of a 'difference': a TypeError
\* when there is no first child; nothing else in the constructor throws
ConstructorThrows(t, ss) == t = "difference" /\ Len(ss) = 0

\* new CompositeShape(type, shapes, { maxAttempts }).  The fields the
\* constructor caches (bbox, center, volume, area) are functions of type and
\* shapes, which no operation changes.
Construct ==
  /\ pc = "new"
  /\ IF ConstructorThrows(type, shapes)
     THEN pc' = "failed" /\ result' = Thrown("TypeError")
     ELSE pc' = "idle" /\ UNCHANGED result
  /\ UNCHANGED <<type, shapes, maxAttempts, attempt, draws, cand, query, answer>>
  /\ UNCHANGED pathVars
  /\ UNCHANGED wrapVars
  /\ UNCHANGED primVars
  /\ UNCHANGED nestVars

\* shape.contains(p, epsilon) called on the composite; a 'difference' with a
\* missing child throws when it reaches the missing child
CallContains ==
  /\ pc = "idle"
  /\ pc' = "answered"
  /\ \E p \in QueryPoints, eps \in Epsilons :
       /\ query' = [p |-> p, eps |-> eps]
       /\ IF type = "difference"
             /\ (Len(shapes) = 0 \/ (Len(shapes) = 1 /\ ContainsPrim(shapes[1], p, eps)))
          THEN answer' = FALSE /\ result' = Thrown("TypeError")
          ELSE answer' = CompositeContains(type, shapes, p, eps) /\ UNCHANGED result
  /\ UNCHANGED <<type, shapes, maxAttempts, attempt, draws, cand>>
  /\ UNCHANGED pathVars
  /\ UNCHANGED wrapVars
  /\ UNCHANGED primVars
  /\ UNCHANGED nestVars

\* CompositeShape.sample(): dispatch, and the part of sampleIntersection before its loop
CallSample ==
  /\ pc = "idle"
  /\ attempt' = 0
  /\ draws' = 0
  /\ cand' = NoCand
  /\ query' = NoQuery
  /\ answer' = FALSE
  /\ IF type = "intersection" /\ BBoxDisjoint(IntersectionBBox(shapes, Len(shapes)))
     THEN pc' = "done" /\ result' = Thrown("disjoint")
     ELSE pc' = "loop" /\ result' = NoResult
  /\ UNCHANGED <<type, shapes, maxAttempts>>
  /\ UNCHANGED pathVars
  /\ UNCHANGED wrapVars
  /\ UNCHANGED primVars
  /\ UNCHANGED nestVars

\* one iteration of the retry loop of sampleUnion
UnionAttempt ==
  /\ pc = "loop" /\ type = "union" /\ attempt < maxAttempts
  /\ IF Len(shapes) = 0
     THEN /\ pc' = "done" /\ result' = Thrown("TypeError")
          /\ UNCHANGED <<attempt, draws, cand>>
     ELSE \E idx \in PickableIndexes(shapes) :
            \E p \in SamplesOf(shapes[idx]) :
              /\ cand' = [idx |-> idx, p |-> p]
              /\ draws' = draws + 1
              /\ IF CoveredByPrior(shapes, idx, p)
                 THEN attempt' = attempt + 1 /\ UNCHANGED <<pc, result>>
                 ELSE pc' = "done" /\ result' = Returned(p, "loop") /\ UNCHANGED attempt
  /\ UNCHANGED <<type, shapes, maxAttempts, query, answer>>
  /\ UNCHANGED pathVars
  /\ UNCHANGED wrapVars
  /\ UNCHANGED primVars
  /\ UNCHANGED nestVars

\* faulty variant of FallbackResults: exhaustion throws, as in sampleIntersection
FallbackThrows(ss) == {Thrown("exhausted")}

\* return shapes[0].sample() after the loop of sampleUnion
FallbackResults(ss) ==
  IF Len(ss) = 0 THEN {Thrown("TypeError")}
  ELSE {Returned(p, "fallback") : p \in SamplesOf(ss[1])}

\* the end of sampleUnion once the loop has used up maxAttempts
UnionFallback ==
  /\ pc = "loop" /\ type = "union" /\ attempt >= maxAttempts
  /\ \E res \in FallbackResults(shapes) :
       /\ result' = res
       /\ draws' = IF res.kind = "point" THEN draws + 1 ELSE draws
       /\ cand' = IF res.kind = "point" THEN [idx |-> 1, p |-> res.p] ELSE cand
  /\ pc' = "done"
  /\ UNCHANGED <<type, shapes, maxAttempts, attempt, query, answer>>
  /\ UNCHANGED pathVars
  /\ UNCHANGED wrapVars
  /\ UNCHANGED primVars
  /\ UNCHANGED nestVars

\* sampleFaultyUnion
FaultyUnionSample ==
  /\ pc = "loop" /\ type = "faulty_union"
  /\ pc' = "done"
  /\ IF Len(shapes) = 0
     THEN result' = Thrown("TypeError") /\ UNCHANGED <<draws, cand>>
     ELSE \E idx \in PickableIndexes(shapes) :
            \E p \in SamplesOf(shapes[idx]) :
              /\ cand' = [idx |-> idx, p |-> p]
              /\ draws' = draws + 1
              /\ result' = Returned(p, "loop")
  /\ UNCHANGED <<type, shapes, maxAttempts, attempt, query, answer>>
  /\ UNCHANGED pathVars
  /\ UNCHANGED wrapVars
  /\ UNCHANGED primVars
  /\ UNCHANGED nestVars

\* one iteration of the loop of sampleIntersection
IntersectionAttempt ==
  /\ pc = "loop" /\ type = "intersection" /\ attempt < maxAttempts
  /\ \E p \in BoxCandidates(IntersectionBBox(shapes, Len(shapes))) :
       /\ cand' = [idx |-> 0, p |-> p]
       /\ draws' = draws + 1
       /\ IF EveryContains(shapes, p)
          THEN pc' = "done" /\ result' = Returned(p, "loop") /\ UNCHANGED attempt
          ELSE attempt' = attempt + 1 /\ UNCHANGED <<pc, result>>
  /\ UNCHANGED <<type, shapes, maxAttempts, query, answer>>
  /\ UNCHANGED pathVars
  /\ UNCHANGED wrapVars
  /\ UNCHANGED primVars
  /\ UNCHANGED nestVars

\* throw new Error(`Intersection sampling failed: ...`) after the loop
IntersectionExhausted ==
  /\ pc = "loop" /\ type = "intersection" /\ attempt >= maxAttempts
  /\ pc' = "done"
  /\ result' = Thrown("exhausted")
  /\ UNCHANGED <<type, shapes, maxAttempts, attempt, draws, cand, query, answer>>
  /\ UNCHANGED pathVars
  /\ UNCHANGED wrapVars
  /\ UNCHANGED primVars
  /\ UNCHANGED nestVars

\* one iteration of the loop of sampleDifference(shapes[0], shapes[1], maxAttempts)
DifferenceAttempt ==
  /\ pc = "loop" /\ type = "difference" /\ attempt < maxAttempts
  /\ IF Len(shapes) = 0
     THEN /\ pc' = "done" /\ result' = Thrown("TypeError")
          /\ UNCHANGED <<attempt, draws, cand>>
     ELSE \E p \in SamplesOf(shapes[1]) :
            /\ cand' = [idx |-> 1, p |-> p]
            /\ draws' = draws + 1
            /\ IF Len(shapes) < 2
               THEN pc' = "done" /\ result' = Thrown("TypeError") /\ UNCHANGED attempt
               ELSE IF ~ContainsPrim(shapes[2], p, 0)
                    THEN pc' = "done" /\ result' = Returned(p, "loop") /\ UNCHANGED attempt
                    ELSE attempt' = attempt + 1 /\ UNCHANGED <<pc, result>>
  /\ UNCHANGED <<type, shapes, maxAttempts, query, answer>>
  /\ UNCHANGED pathVars
  /\ UNCHANGED wrapVars
  /\ UNCHANGED primVars
  /\ UNCHANGED nestVars

\* return shapeA.sample() after the loop of sampleDifference
DifferenceFallback ==
  /\ pc = "loop" /\ type = "difference" /\ attempt >= maxAttempts
  /\ pc' = "done"
  /\ IF Len(shapes) = 0
     THEN result' = Thrown("TypeError") /\ UNCHANGED <<draws, cand>>
     ELSE \E p \in SamplesOf(shapes[1]) :
            /\ cand' = [idx |-> 1, p |-> p]
            /\ draws' = draws + 1
            /\ result' = Returned(p, "fallback")
  /\ UNCHANGED <<type, shapes, maxAttempts, attempt, query, answer>>
  /\ UNCHANGED pathVars
  /\ UNCHANGED wrapVars
  /\ UNCHANGED primVars
  /\ UNCHANGED nestVars

\* sample() or contains() has returned or thrown; the object is unchanged by the call
Return ==
  /\ pc \in {"done", "answered"}
  /\ pc' = "idle"
  /\ attempt' = 0
  /\ draws' = 0
  /\ cand' = NoCand
  /\ result' = NoResult
  /\ query' = NoQuery
  /\ answer' = FALSE
  /\ UNCHANGED <<type, shapes, maxAttempts>>
  /\ UNCHANGED pathVars
  /\ UNCHANGED wrapVars
  /\ UNCHANGED primVars
  /\ UNCHANGED nestVars

Next ==
  \/ Construct
  \/ CallContains
  \/ CallSample
  \/ UnionAttempt
  \/ UnionFallback
  \/ FaultyUnionSample
  \/ IntersectionAttempt
  \/ IntersectionExhausted
  \/ DifferenceAttempt
  \/ DifferenceFallback
  \/ Return

Spec == Init /\ [][Next]_vars

(***************************************************************************)
(* Path1D: construction and sampling                                       *)
(***************************************************************************)
InitPath ==
  /\ type = "union"
  /\ shapes = <<>>
  /\ maxAttempts = 0
  /\ pc = "idle"
  /\ attempt = 0
  /\ draws = 0
  /\ cand = NoCand
  /\ result = NoResult
  /\ query = NoQuery
  /\ answer = FALSE
  /\ \E descs \in DescriptorLists : path = NewPath1D(descs, LutResolution)
  /\ ps = NoSample
  /\ wrapped = NoWrapper
  /\ wcall = NoCall
  /\ prim = NoPrim
  /\ pcall = NoPrimCall
  /\ tree = NoTree
  /\ stack = <<>>
  /\ ret = NoRet

\* path.sample()
PathSample ==
  /\ ps = NoSample
  /\ \E target \in Targets(path) : ps' = SamplePath(path, target)
  /\ UNCHANGED path
  /\ UNCHANGED csgVars
  /\ UNCHANGED wrapVars
  /\ UNCHANGED primVars
  /\ UNCHANGED nestVars

\* sample() has returned; the path is unchanged by the call
PathReturn ==
  /\ ps # NoSample
  /\ ps' = NoSample
  /\ UNCHANGED path
  /\ UNCHANGED csgVars
  /\ UNCHANGED wrapVars
  /\ UNCHANGED primVars
  /\ UNCHANGED nestVars

NextPath ==
  \/ PathSample
  \/ PathReturn

SpecPath == InitPath /\ [][NextPath]_vars

(***************************************************************************)
(* RotatedShape / TranslatedShape: construction, sample() and contains()   *)
(***************************************************************************)
InitWrap ==
  /\ type = "union"
  /\ shapes = <<>>
  /\ maxAttempts = 0
  /\ pc = "idle"
  /\ attempt = 0
  /\ draws = 0
  /\ cand = NoCand
  /\ result = NoResult
  /\ query = NoQuery
  /\ answer = FALSE
  /\ path = EmptyPath
  /\ ps = NoSample
  /\ wrapped \in Wrappers
  /\ wcall = NoCall
  /\ prim = NoPrim
  /\ pcall = NoPrimCall
  /\ tree = NoTree
  /\ stack = <<>>
  /\ ret = NoRet

\* wrapped.sample(): the innermost shape returns q, each wrapper maps it
WrapSample ==
  /\ wcall = NoCall
  /\ \E q \in BaseSamples(Innermost(wrapped)) :
       wcall' = [NoCall EXCEPT !.op = "sample", !.q = q, !.out = SampleVia(wrapped, q)]
  /\ UNCHANGED wrapped
  /\ UNCHANGED csgVars
  /\ UNCHANGED pathVars
  /\ UNCHANGED primVars
  /\ UNCHANGED nestVars

\* wrapped.contains(p, epsilon)
WrapContains ==
  /\ wcall = NoCall
  /\ \E p \in WrapQueryPoints, eps \in Epsilons :
       wcall' = [NoCall EXCEPT !.op = "contains", !.p = p, !.eps = eps,
                               !.threw = ContainsThrows(wrapped),
                               !.ans = IF ContainsThrows(wrapped) THEN FALSE
                                       ELSE ShapeContains(wrapped, p, eps)]
  /\ UNCHANGED wrapped
  /\ UNCHANGED csgVars
  /\ UNCHANGED pathVars
  /\ UNCHANGED primVars
  /\ UNCHANGED nestVars

\* the call has returned or thrown; the wrapper is unchanged by it
WrapReturn ==
  /\ wcall # NoCall
  /\ wcall' = NoCall
  /\ UNCHANGED wrapped
  /\ UNCHANGED csgVars
  /\ UNCHANGED pathVars
  /\ UNCHANGED primVars
  /\ UNCHANGED nestVars

NextWrap ==
  \/ WrapSample
  \/ WrapContains
  \/ WrapReturn

SpecWrap == InitWrap /\ [][NextWrap]_vars

(***************************************************************************)
(* Triangle2D and Polygon2D                                                *)
(***************************************************************************)
\* Math.random() returns k / RandomSteps for some k in 0 .. RandomSteps - 1
RandomSteps == 3
\* largest number of vertices handed to Polygon2D
MaxVertices == 4

RandomValues == {QNorm(k, RandomSteps) : k \in 0..(RandomSteps - 1)}

QSub(a, b) == QAdd(a, QMul(Q(-1, 1), b))

\* a / b for a divisor that is not zero
QDiv(a, b) ==
  IF QIsNum(a) /\ QIsNum(b) /\ b.n # 0 THEN QNorm(a.n * b.d, a.d * b.n) ELSE QNaN

QLt(a, b) == QIsNum(a) /\ QIsNum(b) /\ a.n * b.d < b.n * a.d

\* (p2.x - p1.x) * (p3.y - p1.y) - (p2.y - p1.y) * (p3.x - p1.x)
Cross(p1, p2, p3) == (p2.x - p1.x) * (p3.y - p1.y) - (p2.y - p1.y) * (p3.x - p1.x)

\* new Triangle2D(a, b, c)
Triangle2D(a, b, c) ==
  [kind |-> "triangle", a |-> a, b |-> b, c |-> c,
   area |-> QMul(QInt(Abs(Cross(a, b, c))), Q(1, 2))]

\* Triangle2D.contains(p, epsilon); Math.abs(detT) < 1e-15 is detT = 0 on integers
TriangleContains(t, p, eps) ==
  LET detT == (t.b.y - t.c.y) * (t.a.x - t.c.x) + (t.c.x - t.b.x) * (t.a.y - t.c.y)
      px == QSub(p.x, QInt(t.c.x))
      py == QSub(p.y, QInt(t.c.y))
      l1 == QDiv(QAdd(QMul(QInt(t.b.y - t.c.y), px), QMul(QInt(t.c.x - t.b.x), py)), QInt(detT))
      l2 == QDiv(QAdd(QMul(QInt(t.c.y - t.a.y), px), QMul(QInt(t.a.x - t.c.x), py)), QInt(detT))
      l3 == QSub(QSub(Q(1, 1), l1), l2)
  IN /\ detT # 0
     /\ QLe(QInt(-eps), l1) /\ QLe(QInt(-eps), l2) /\ QLe(QInt(-eps), l3)

\* faulty variant of Fold: the pair is used as drawn
FoldNever(u, v) == <<u, v>>

\* if (u + v > 1) { u = 1 - u; v = 1 - v; }
Fold(u, v) ==
  IF QLt(Q(1, 1), QAdd(u, v)) THEN <<QSub(Q(1, 1), u), QSub(Q(1, 1), v)>> ELSE <<u, v>>

\* Triangle2D.sample() for the two values u, v of Math.random()
TriangleSample(t, u, v) ==
  LET f == Fold(u, v)
  IN QPoint(QAdd(QInt(t.a.x), QAdd(QMul(f[1], QInt(t.b.x - t.a.x)), QMul(f[2], QInt(t.c.x - t.a.x)))),
            QAdd(QInt(t.a.y), QAdd(QMul(f[1], QInt(t.b.y - t.a.y)), QMul(f[2], QInt(t.c.y - t.a.y)))),
            QInt(Coalesce(t.a.z, 0)))

RECURSIVE ShoelaceSum(_, _)
\* the sum of pts[i].x * pts[j].y - pts[j].x * pts[i].y over the first n vertices
ShoelaceSum(pts, n) ==
  IF n = 0 THEN 0
  ELSE LET j == IF n = Len(pts) THEN 1 ELSE n + 1
       IN ShoelaceSum(pts, n - 1) + pts[n].x * pts[j].y - pts[j].x * pts[n].y

\* Polygon2D.getSignedArea(pts)
GetSignedArea(pts) == QNorm(ShoelaceSum(pts, Len(pts)), 2)

\* pts.reverse()
Reverse(pts) == [i \in 1..Len(pts) |-> pts[Len(pts) + 1 - i]]

\* the neighbours of pts[i] on the ring
PrevIndex(pts, i) == IF i = 1 THEN Len(pts) ELSE i - 1

NextIndex(pts, i) == IF i = Len(pts) THEN 1 ELSE i + 1

\* Polygon2D.isEar(prev, curr, next, allPoints) for curr = pts[i]; the
\* vertices are distinct objects, told apart by their position
IsEar(pts, i) ==
  LET p1 == pts[PrevIndex(pts, i)]
      p2 == pts[i]
      p3 == pts[NextIndex(pts, i)]
  IN /\ Cross(p1, p2, p3) > 0
     /\ \A k \in (1..Len(pts)) \ {PrevIndex(pts, i), i, NextIndex(pts, i)} :
          ~TriangleContains(Triangle2D(p1, p2, p3), QPoint(QInt(pts[k].x), QInt(pts[k].y), QInt(0)), 0)

\* pts.splice(i, 1)
Splice(pts, i) == [k \in 1..(Len(pts) - 1) |-> IF k < i THEN pts[k] ELSE pts[k + 1]]

\* the element of a set of one element: a value computed once and then named
The(S) == CHOOSE x \in S : TRUE

RECURSIVE EarClip(_, _)
\* the while loop of Polygon2D.triangulate: clip the first ear until three
\* points are left or no ear is found
EarClip(pts, tris) ==
  IF Len(pts) > 3 /\ \E i \in 1..Len(pts) : IsEar(pts, i)
  THEN The({EarClip(rest, Append(tris, ear)) :
              <<rest, ear>> \in
                {<<Splice(pts, i), Triangle2D(pts[PrevIndex(pts, i)], pts[i], pts[NextIndex(pts, i)])>> :
                   i \in {SetMin({k \in 1..Len(pts) : IsEar(pts, k)})}}})
  ELSE [pts |-> pts, tris |-> tris]

\* Polygon2D.triangulate(vertices): the triangle list it leaves in this.triangles
Triangulate(vertices) ==
  The({IF Len(r.pts) = 3 THEN Append(r.tris, Triangle2D(r.pts[1], r.pts[2], r.pts[3]))
       ELSE r.tris :
         r \in {EarClip(ccw, <<>>) :
                  ccw \in {IF QLt(GetSignedArea(vertices), Q(0, 1)) THEN Reverse(vertices)
                           ELSE vertices}}})

RECURSIVE CumulativeArea(_, _)
\* t.cumulativeArea of the n-th triangle
CumulativeArea(tris, n) ==
  IF n = 0 THEN Q(0, 1) ELSE QAdd(CumulativeArea(tris, n - 1), tris[n].area)

\* new Polygon2D(vertices): the object, or the error the constructor throws
Polygon2D(vertices) ==
  IF Len(vertices) < 3 THEN [kind |-> "thrown", msg |-> "Polygon needs >= 3 vertices"]
  ELSE The({[kind |-> "polygon", vertices |-> vertices, triangles |-> tris,
             cumulativeArea |-> [n \in 1..Len(tris) |-> CumulativeArea(tris, n)],
             area |-> CumulativeArea(tris, Len(tris))] :
              tris \in {Triangulate(vertices)}})

RECURSIVE TriangleSearch(_, _, _, _)
\* the binary search of Polygon2D.sample() over triangles[mid].cumulativeArea,
\* on 0-based indexes
TriangleSearch(cum, r, low, high) ==
  IF low < high
  THEN LET mid == (low + high) \div 2
       IN IF QLt(cum[mid + 1], r) THEN TriangleSearch(cum, r, mid + 1, high)
          ELSE TriangleSearch(cum, r, low, mid)
  ELSE low

\* the 0-based index of the triangle Polygon2D.sample() reads for r = w * this.area
PickTriangle(poly, w) ==
  TriangleSearch(poly.cumulativeArea, QMul(w, poly.area), 0, Len(poly.triangles) - 1)

\* the vertices triangles and polygons are built from: a square of side 2,
\* its center, and four points in a row
Vertices ==
  {Point(0, 0, Undefined), Point(1, 0, Undefined), Point(2, 0, Undefined), Point(3, 0, Undefined),
   Point(2, 2, Undefined), Point(0, 2, Undefined), Point(1, 1, Undefined)}

VertexLists == UNION {[1..n -> Vertices] : n \in 0..MaxVertices}

Triangles == {Triangle2D(a, b, c) : a \in Vertices, b \in Vertices, c \in Vertices}

Polygons == {Polygon2D(vs) : vs \in VertexLists}

(***************************************************************************)
(* EllipseSector2D, CircleSector2D, Ellipse2D and Ellipsoid3D              *)
(***************************************************************************)
\* a % n of JavaScript: the remainder has the sign of the dividend
JsRem(a, n) == IF a >= 0 THEN a % n ELSE -((-a) % n)

\* let deltaTheta = endAngle - startAngle; if (deltaTheta < 0) deltaTheta += 2 * Math.PI
DeltaTheta(start, end) == IF end - start < 0 THEN end - start + TwoPi ELSE end - start

\* new EllipseSector2D(center, outerRx, outerRy, startAngle, endAngle, innerRx, innerRy),
\* new CircleSector2D(center, radius, startAngle, endAngle, innerRadius) and
\* new Ellipse2D(center, rx, ry, innerRx, innerRy), told apart by class; the
\* angles are whole quarter turns and the area is taken with pi = 3, a
\* quarter turn being 3/2
EllipseSector2D(class, cx, cy, cz, outerRx, outerRy, start, end, innerRx, innerRy) ==
  [kind |-> "sector", class |-> class, cx |-> cx, cy |-> cy, cz |-> cz,
   outerRx |-> outerRx, outerRy |-> outerRy, innerRx |-> innerRx, innerRy |-> innerRy,
   start |-> start, end |-> end, deltaTheta |-> DeltaTheta(start, end),
   area |-> QSub(QNorm(3 * outerRx * outerRy * DeltaTheta(start, end), 4),
                 QNorm(3 * innerRx * innerRy * DeltaTheta(start, end), 4))]

\* Math.atan2(y, x) in quarter turns, for a point on an axis
Atan2(y, x) ==
  CASE ~QIsNum(y) \/ ~QIsNum(x) -> QNaN
    [] y.n = 0 /\ x.n >= 0 -> Q(0, 1)
    [] y.n > 0 /\ x.n = 0 -> Q(1, 1)
    [] y.n = 0 /\ x.n < 0 -> Q(2, 1)
    [] y.n < 0 /\ x.n = 0 -> Q(-1, 1)
    [] OTHER -> QNaN

\* the angular test shared by the sector classes, after
\* if (theta < 0) theta += 2 * Math.PI
InAngularRange(s, atan, eps) ==
  LET theta == IF QLt(atan, Q(0, 1)) THEN QAdd(atan, QInt(TwoPi)) ELSE atan
  IN IF s.start <= s.end
     THEN QLe(QInt(s.start - eps), theta) /\ QLe(theta, QInt(s.end + eps))
     ELSE QLe(QInt(s.start - eps), theta) \/ QLe(theta, QInt(s.end + eps))

\* (dx * dx) / (rx * rx) + (dy * dy) / (ry * ry), for radii that are not zero
EllipseDistSq(dx, dy, rx, ry) ==
  QAdd(QDiv(QMul(dx, dx), QInt(rx * rx)), QDiv(QMul(dy, dy), QInt(ry * ry)))

\* EllipseSector2D.contains(p, epsilon).  With an outer radius of zero a
\* quotient is Infinity or NaN: the point is rejected by distSq, or theta is
\* NaN and both angular comparisons are false.
EllipseSectorContains(s, p, eps) ==
  LET dx == QSub(p.x, QInt(s.cx))
      dy == QSub(p.y, QInt(s.cy))
      distSq == EllipseDistSq(dx, dy, s.outerRx, s.outerRy)
      innerDistSq == IF s.innerRx <= 0 \/ s.innerRy <= 0 THEN Q(0, 1)
                     ELSE EllipseDistSq(dx, dy, s.innerRx, s.innerRy)
  IN /\ s.outerRx # 0 /\ s.outerRy # 0
     /\ ~QLt(QInt(1 + eps), distSq)
     /\ ~(s.innerRx > 0 /\ QLt(innerDistSq, QInt(1 - eps)))
     /\ InAngularRange(s, Atan2(QDiv(dy, QInt(s.outerRy)), QDiv(dx, QInt(s.outerRx))), eps)

\* CircleSector2D.contains(p, epsilon)
CircleSectorContains(s, p, eps) ==
  LET dx == QSub(p.x, QInt(s.cx))
      dy == QSub(p.y, QInt(s.cy))
      d2 == QAdd(QMul(dx, dx), QMul(dy, dy))
  IN /\ ~QLt(QInt(s.outerRx * s.outerRx + eps), d2)
     /\ ~QLt(d2, QInt(s.innerRx * s.innerRx - eps))
     /\ InAngularRange(s, Atan2(dy, dx), eps)

\* Ellipse2D.contains(p, epsilon); a comparison with NaN is false, and with
\* an inner Ry of zero innerDistSq is Infinity unless dy is zero
Ellipse2DContains(s, p, eps) ==
  LET dx == QSub(p.x, QInt(s.cx))
      dy == QSub(p.y, QInt(s.cy))
  IN /\ s.outerRx # 0 /\ s.outerRy # 0
     /\ QLe(EllipseDistSq(dx, dy, s.outerRx, s.outerRy), QInt(1 + eps))
     /\ s.innerRx > 0 =>
          IF s.innerRy = 0 THEN QIsNum(dx) /\ QIsNum(dy) /\ dy.n # 0
          ELSE QLe(QInt(1 - eps), EllipseDistSq(dx, dy, s.innerRx, s.innerRy))

\* contains(p, epsilon) of the class of the sector
SectorContains(s, p, eps) ==
  CASE s.class = "CircleSector2D" -> CircleSectorContains(s, p, eps)
    [] s.class = "Ellipse2D" -> Ellipse2DContains(s, p, eps)
    [] OTHER -> EllipseSectorContains(s, p, eps)

\* the values on the grid of Math.sqrt(Math.random() * (1 - ratio^2) + ratio^2)
\* (power 2) and Math.cbrt(Math.random() * (1 - ratio^3) + ratio^3) (power 3)
\* for ratio = inner / outer: they lie between the ratio and 1, and are NaN
\* when the outer radius is zero
Scalings(inner, outer) ==
  IF outer = 0 THEN {QNaN}
  ELSE LET ratio == QNorm(Abs(inner), Abs(outer))
       IN {s \in RandomValues \cup {ratio} :
             \/ QLe(ratio, s) /\ QLt(s, Q(1, 1))
             \/ s = ratio
             \/ QLt(Q(1, 1), s) /\ QLe(s, ratio)}

\* Math.random() * this.deltaTheta, for the draws that give a whole quarter turn
AngleDraws(delta) ==
  IF delta > 0 THEN 0 .. (delta - 1) ELSE IF delta < 0 THEN (delta + 1) .. 0 ELSE {0}

\* t = (this.start + Math.random() * this.deltaTheta) % (2 * Math.PI)
SectorAngles(s) == {JsRem(s.start + k, TwoPi) : k \in AngleDraws(s.deltaTheta)}

\* EllipseSector2D.sample() for the angle t and the radial scaling rScaling
SectorSample(s, t, rScaling) ==
  QPoint(QAdd(QInt(s.cx), QMul(rScaling, QInt(s.outerRx * Cos4(t)))),
         QAdd(QInt(s.cy), QMul(rScaling, QInt(s.outerRy * Sin4(t)))),
         QInt(Coalesce(s.cz, 0)))

\* new Ellipsoid3D(center, rx, ry, rz, innerRx, innerRy, innerRz); the
\* volume (1/3) * rx * ry * rz * 4 * pi less the inner one, with pi = 3
Ellipsoid3D(cx, cy, cz, rx, ry, rz, innerRx, innerRy, innerRz) ==
  [kind |-> "ellipsoid", cx |-> cx, cy |-> cy, cz |-> cz,
   rx |-> rx, ry |-> ry, rz |-> rz,
   innerRx |-> innerRx, innerRy |-> innerRy, innerRz |-> innerRz,
   volume |-> QInt(4 * rx * ry * rz - 4 * innerRx * innerRy * innerRz)]

\* Ellipsoid3D.sample() for the scaling r, theta in quarter turns and
\* cosP = 2 * Math.random() - 1 in {-1, 0}, where sinP is 0 or 1
EllipsoidSample(s, r, theta, cosP) ==
  LET sinP == IF cosP = 0 THEN 1 ELSE 0
  IN QPoint(QAdd(QInt(s.cx), QMul(r, QInt(s.rx * sinP * Cos4(theta)))),
            QAdd(QInt(s.cy), QMul(r, QInt(s.ry * sinP * Sin4(theta)))),
            QAdd(QInt(s.cz), QMul(r, QInt(s.rz * cosP))))

(***************************************************************************)
(* Cone3D                                                                  *)
(***************************************************************************)
\* the number of draws of the rejection loop of Cone3D.sample() (2000 in the code)
ConeMaxAttempts == 2

\* new Cone3D(center, radius, height, innerRadius, innerHeight); innerHeight
\* is Undefined for the default null
Cone3D(cx, cy, cz, radius, height, innerRadius, innerHeight) ==
  [kind |-> "cone", cx |-> cx, cy |-> cy, cz |-> cz,
   radius |-> radius, height |-> height, innerRadius |-> innerRadius,
   innerHeight |-> IF innerHeight # Undefined THEN innerHeight
                   ELSE IF innerRadius > 0 THEN height ELSE 0]

\* (radius / height) * (height - dz)
RadiusAtZ(radius, height, dz) ==
  QMul(QDiv(QInt(radius), QInt(height)), QSub(QInt(height), dz))

\* dx * dx + dy * dy from the axis of the cone
ConeDistSq(c, p) ==
  QAdd(QMul(QSub(p.x, QInt(c.cx)), QSub(p.x, QInt(c.cx))),
       QMul(QSub(p.y, QInt(c.cy)), QSub(p.y, QInt(c.cy))))

\* Cone3D.contains(p, epsilon)
ConeContains(c, p, eps) ==
  LET dz == QSub(p.z, QInt(c.cz))
      outerRAtZ == QAdd(RadiusAtZ(c.radius, c.height, dz), QInt(eps))
      innerRAtZ == QSub(RadiusAtZ(c.innerRadius, c.innerHeight, dz), QInt(eps))
      d2 == ConeDistSq(c, p)
  IN /\ ~(QLt(dz, QInt(-eps)) \/ QLt(QInt(c.height + eps), dz))
     /\ ~QLt(QMul(outerRAtZ, outerRAtZ), d2)
     /\ ~(/\ c.innerRadius > 0
          /\ QLe(dz, QInt(c.innerHeight + eps))
          /\ QLt(d2, QMul(innerRAtZ, innerRAtZ)))

\* Cone3D._sampleOuter() for t = Math.cbrt(u), s = Math.sqrt(Math.random())
\* and theta in quarter turns
SampleOuter(c, t, s, theta) ==
  LET r == QMul(QMul(t, QInt(c.radius)), s)
  IN QPoint(QAdd(QInt(c.cx), QMul(r, QInt(Cos4(theta)))),
            QAdd(QInt(c.cy), QMul(r, QInt(Sin4(theta)))),
            QAdd(QInt(c.cz), QMul(QSub(Q(1, 1), t), QInt(c.height))))

\* the points _sampleOuter() returns on the grid
OuterSamples(c) ==
  {SampleOuter(c, w[1], w[2], th) : w \in RandomValues \X RandomValues, th \in 0..(TwoPi - 1)}

\* the test of the rejection loop: the draw p is returned
ConeAccepts(c, p) ==
  LET dz == QSub(p.z, QInt(c.cz))
      innerRAtZ == RadiusAtZ(c.innerRadius, c.innerHeight, dz)
  IN \/ QLt(QInt(c.innerHeight), dz)
     \/ QLe(QMul(innerRAtZ, innerRAtZ), ConeDistSq(c, p))

\* the cone of the unit test scaled to radius 3 and height 3, hollow cones
\* with a shared tip (thin void, and void up to the outer wall), and a
\* hollow cone with a lower void
Cones ==
  {Cone3D(0, 0, 0, 3, 3, 0, Undefined), Cone3D(0, 0, 0, 3, 3, 1, Undefined),
   Cone3D(0, 0, 0, 3, 3, 3, Undefined), Cone3D(0, 0, 1, 3, 3, 2, 1)}

(***************************************************************************)
(* Primitive shapes: construction and sample()                             *)
(***************************************************************************)
\* the calls sample() of a shape without a retry loop can end with
SampleCalls(s) ==
  CASE s.kind = "triangle" ->
         {[NoPrimCall EXCEPT !.op = "sample", !.u = u, !.v = v, !.out = TriangleSample(s, u, v)] :
            u \in RandomValues, v \in RandomValues}
    [] s.kind = "polygon" ->
         IF Len(s.triangles) = 0
         THEN {[NoPrimCall EXCEPT !.op = "sample", !.threw = TRUE]}
         ELSE {[NoPrimCall EXCEPT !.op = "sample", !.idx = PickTriangle(s, w[1]),
                                  !.u = w[2], !.v = w[3],
                                  !.out = TriangleSample(s.triangles[PickTriangle(s, w[1]) + 1],
                                                         w[2], w[3])] :
                 w \in RandomValues \X RandomValues \X RandomValues}
    [] s.kind = "sector" ->
         {[NoPrimCall EXCEPT !.op = "sample", !.idx = t, !.u = r, !.out = SectorSample(s, t, r)] :
            t \in SectorAngles(s), r \in Scalings(s.innerRx, s.outerRx)}
    [] s.kind = "ellipsoid" ->
         {[NoPrimCall EXCEPT !.op = "sample", !.idx = w[1], !.u = r,
                            !.out = EllipsoidSample(s, r, w[1], w[2])] :
            w \in (0..(TwoPi - 1)) \X {-1, 0}, r \in Scalings(s.innerRx, s.rx)}
    [] s.kind = "cone" /\ s.innerRadius <= 0 ->
         {[NoPrimCall EXCEPT !.op = "sample", !.out = p] : p \in OuterSamples(s)}
    [] s.kind \in {"rect", "circle", "box"} ->
         {[NoPrimCall EXCEPT !.op = "sample", !.out = QPoint(QInt(p.x), QInt(p.y), QInt(p.z))] :
            p \in SamplesOf(s)}
    [] OTHER -> {}

\* whole quarter turns handed to the sector constructors as start and end
\* angle: inside [0, 2 * Math.PI], below it and above it
SectorAngleArgs == (-1) .. (TwoPi + 1)

\* sectors of a circle of radius 2, solid and hollow, and of an ellipse with
\* radii 2 and 1, solid and with a proportional hollow
Sectors ==
  {EllipseSector2D("CircleSector2D", 0, 0, Undefined, 2, 2, a, b, ir, ir) :
     a \in SectorAngleArgs, b \in SectorAngleArgs, ir \in {0, 1}}
  \cup {EllipseSector2D("EllipseSector2D", 1, 0, 0, 4, 2, a, b, 2 * ir, ir) :
          a \in SectorAngleArgs, b \in SectorAngleArgs, ir \in {0, 1}}

\* shapes with a radius or a dimension that is zero or negative
DegeneratePrims ==
  {Rectangle2D(0, 0, Undefined, 0, 2), Rectangle2D(0, 0, 0, 2, 0), Rectangle2D(0, 0, Undefined, 0, 0),
   Rectangle2D(0, 0, Undefined, -2, 2),
   Circle2D(0, 0, Undefined, 0, 0), Circle2D(0, 0, Undefined, -1, 0),
   Box3D(0, 0, 0, 2, 2, 0), Box3D(0, 0, 0, 0, 0, 0), Box3D(0, 0, 0, 2, -2, 2),
   EllipseSector2D("Ellipse2D", 0, 0, Undefined, 0, 0, 0, TwoPi, 0, 0),
   EllipseSector2D("Ellipse2D", 0, 0, Undefined, 2, 0, 0, TwoPi, 0, 0),
   EllipseSector2D("Ellipse2D", 0, 0, Undefined, -2, 1, 0, TwoPi, 0, 0),
   EllipseSector2D("EllipseSector2D", 0, 0, Undefined, 0, 2, 0, 1, 0, 0),
   Ellipsoid3D(0, 0, 0, 0, 0, 0, 0, 0, 0), Ellipsoid3D(0, 0, 0, 2, 2, 0, 0, 0, 0),
   Ellipsoid3D(0, 0, 0, 0, 2, 2, 0, 0, 0)}

\* the same classes with positive radii and dimensions
RegularPrims ==
  {Rectangle2D(0, 0, Undefined, 2, 2), Circle2D(0, 0, Undefined, 2, 0), Box3D(0, 0, 0, 2, 2, 2),
   EllipseSector2D("Ellipse2D", 0, 0, Undefined, 2, 1, 0, TwoPi, 0, 0),
   Ellipsoid3D(0, 0, 0, 2, 2, 1, 0, 0, 0)}

\* the objects under test
PrimObjects ==
  Triangles \cup Polygons \cup Sectors \cup DegeneratePrims \cup RegularPrims \cup Cones

InitPrim ==
  /\ type = "union"
  /\ shapes = <<>>
  /\ maxAttempts = 0
  /\ pc = "idle"
  /\ attempt = 0
  /\ draws = 0
  /\ cand = NoCand
  /\ result = NoResult
  /\ query = NoQuery
  /\ answer = FALSE
  /\ path = EmptyPath
  /\ ps = NoSample
  /\ wrapped = NoWrapper
  /\ wcall = NoCall
  /\ prim \in PrimObjects
  /\ pcall = NoPrimCall
  /\ tree = NoTree
  /\ stack = <<>>
  /\ ret = NoRet

\* prim.sample() of a shape whose sampler has no loop
PrimSample ==
  /\ pcall = NoPrimCall
  /\ pcall' \in SampleCalls(prim)
  /\ UNCHANGED prim
  /\ UNCHANGED csgVars
  /\ UNCHANGED pathVars
  /\ UNCHANGED wrapVars
  /\ UNCHANGED nestVars

\* one iteration of the rejection loop of Cone3D.sample() on a hollow cone
ConeAttempt ==
  /\ prim.kind = "cone" /\ prim.innerRadius > 0
  /\ pcall.op \in {"none", "loop"}
  /\ pcall.attempts < ConeMaxAttempts
  /\ \E p \in OuterSamples(prim) :
       IF ConeAccepts(prim, p)
       THEN pcall' = [pcall EXCEPT !.op = "sample", !.out = p, !.via = "loop"]
       ELSE pcall' = [pcall EXCEPT !.op = "loop", !.out = p, !.attempts = pcall.attempts + 1]
  /\ UNCHANGED prim
  /\ UNCHANGED csgVars
  /\ UNCHANGED pathVars
  /\ UNCHANGED wrapVars
  /\ UNCHANGED nestVars

\* return this._sampleOuter() after the loop
ConeFallback ==
  /\ prim.kind = "cone" /\ prim.innerRadius > 0
  /\ pcall.op \in {"none", "loop"}
  /\ pcall.attempts >= ConeMaxAttempts
  /\ \E p \in OuterSamples(prim) :
       pcall' = [pcall EXCEPT !.op = "sample", !.out = p, !.via = "fallback"]
  /\ UNCHANGED prim
  /\ UNCHANGED csgVars
  /\ UNCHANGED pathVars
  /\ UNCHANGED wrapVars
  /\ UNCHANGED nestVars

\* sample() has returned or thrown; the shape is unchanged by the call
PrimReturn ==
  /\ pcall.op = "sample"
  /\ pcall' = NoPrimCall
  /\ UNCHANGED prim
  /\ UNCHANGED csgVars
  /\ UNCHANGED pathVars
  /\ UNCHANGED wrapVars
  /\ UNCHANGED nestVars

NextPrim ==
  \/ PrimSample
  \/ ConeAttempt
  \/ ConeFallback
  \/ PrimReturn

SpecPrim == InitPrim /\ [][NextPrim]_vars

(***************************************************************************)
(* Nested composites: sample() through a tree of CompositeShape objects    *)
(***************************************************************************)
\* a number field as a rational; an absent field stays absent
QOfNum(v) == IF v = Undefined THEN QUndef ELSE QInt(v)

\* a ?? d
QCoalesce(a, d) == IF a = QUndef THEN d ELSE a

\* a || d
QOrElse(a, d) == IF ~QIsNum(a) \/ a.n = 0 THEN d ELSE a

\* s.area / s.volume of a child that is a primitive or a composite
\* (this.area = this.volume on a composite)
NodeArea(s) == IF s.kind = "composite" THEN s.measure ELSE QOfNum(AreaOf(s))

NodeVolume(s) == IF s.kind = "composite" THEN s.measure ELSE QOfNum(VolumeOf(s))

RECURSIVE NodeMeasureSum(_, _)
\* shapes.reduce((sum, s) => sum + (s.volume ?? s.area ?? 0), 0) over the first n children
NodeMeasureSum(ss, n) ==
  IF n = 0 THEN Q(0, 1)
  ELSE QAdd(NodeMeasureSum(ss, n - 1),
            QCoalesce(NodeVolume(ss[n]), QCoalesce(NodeArea(ss[n]), Q(0, 1))))

\* CompositeShape._calculateVolume() for children that may be composites
NestedVolume(t, ss) ==
  CASE t = "difference" ->
         QMax(Q(1, 1000), QMul(QOrElse(NodeVolume(ss[1]), Q(1, 1)), Q(7, 10)))
    [] t = "intersection" -> CalculateVolume(t, ss)
    [] OTHER -> NodeMeasureSum(ss, Len(ss))

RECURSIVE NodeContains(_, _)
\* s.contains(p) with the default epsilon, through nested composites
NodeContains(s, p) ==
  IF s.kind # "composite" THEN ContainsPrim(s, p, 0)
  ELSE CASE s.type \in {"union", "faulty_union"} ->
              \E i \in 1..Len(s.shapes) : NodeContains(s.shapes[i], p)
         [] s.type = "intersection" ->
              \A i \in 1..Len(s.shapes) : NodeContains(s.shapes[i], p)
         [] s.type = "difference" ->
              NodeContains(s.shapes[1], p) /\ ~NodeContains(s.shapes[2], p)
         [] OTHER -> FALSE

\* weights[i] = s.area ?? s.volume ?? 1
NodeWeight(s) == QCoalesce(NodeArea(s), QCoalesce(NodeVolume(s), Q(1, 1)))

RECURSIVE NodeCumWeight(_, _)
NodeCumWeight(ss, n) ==
  IF n = 0 THEN Q(0, 1) ELSE QAdd(NodeCumWeight(ss, n - 1), NodeWeight(ss[n]))

\* r = Math.random() * totalWeight: zero, every partial sum of the weights
\* and every value half way between two of them, as far as they lie in the
\* range of the product
NodeRandomR(ss) ==
  LET total == NodeCumWeight(ss, Len(ss))
      marks == {NodeCumWeight(ss, n) : n \in 0..Len(ss)}
      rs == marks \cup {QHalfSum(a, b) : a \in marks, b \in marks}
  IN IF ~QIsNum(total) THEN {QNaN}
     ELSE {r \in rs : \/ QLe(Q(0, 1), r) /\ QLt(r, total)
                      \/ QLt(total, r) /\ QLe(r, Q(0, 1))
                      \/ r = Q(0, 1)}

\* for (i ...) if ((r -= weights[i]) <= 0) { idx = i; break; }   (idx stays 0 otherwise)
NodePickIndex(ss, r) ==
  LET hits == {i \in 1..Len(ss) : QLe(QSub(r, NodeCumWeight(ss, i)), Q(0, 1))}
  IN IF hits = {} THEN 1 ELSE SetMin(hits)

\* the indexes the weighted selection of sampleUnion / sampleFaultyUnion can produce
NodePickable(ss) == {NodePickIndex(ss, r) : r \in NodeRandomR(ss)}

\* new CompositeShape(type, shapes, { maxAttempts }) for children that may be
\* composites.  pick holds the indexes that the weights of the children can
\* select: sampleUnion and sampleFaultyUnion compute them at every call from
\* the children's area / volume, which never change after construction
NestedComposite(t, ss, attempts) ==
  [kind |-> "composite", type |-> t, shapes |-> ss, maxAttempts |-> attempts,
   bbox |-> CalculateBBox(t, ss), measure |-> NestedVolume(t, ss),
   pick |-> NodePickable(ss)]

\* the activation of sample() on a composite: where it stands, the attempts
\* and child draws made so far (counted up to DrawCap), the child it waits for
DrawCap == MaxAttemptsBound + 3

Frame(node) ==
  [node |-> node, phase |-> "start", attempt |-> 0, draws |-> 0, idx |-> 0, after |-> ""]

Top == stack[Len(stack)]

Pop == SubSeq(stack, 1, Len(stack) - 1)

SetTop(f) == [stack EXCEPT ![Len(stack)] = f]

\* one more child sample() or bbox candidate drawn by the activation
Drawn(f) == [f EXCEPT !.draws = IF f.draws < DrawCap THEN f.draws + 1 ELSE DrawCap]

\* the value an activation hands to its caller
RetPoint(f, p) == [kind |-> "point", p |-> p, msg |-> "", draws |-> f.draws]

RetThrow(f, msg) == [kind |-> "throw", p |-> NoPoint, msg |-> msg, draws |-> f.draws]

\* faulty variant of Retry: the attempt counter is not advanced
RetryForever(f) == [f EXCEPT !.phase = "loop"]

\* the end of a rejected iteration: attempt++ and back to the loop test
Retry(f) == [f EXCEPT !.phase = "loop", !.attempt = f.attempt + 1]

\* the draw p of child idx is rejected by the loop of the activation:
\* covered by an earlier child (union), contained in shapes[1] (difference)
Rejects(f, idx, p) ==
  CASE f.node.type = "union" -> \E j \in 1..(idx - 1) : NodeContains(f.node.shapes[j], p)
    [] f.node.type = "difference" -> NodeContains(f.node.shapes[2], p)
    [] OTHER -> FALSE

\* the children sample() can call in an iteration of the loop
LoopChildren(f) == IF f.node.type = "difference" THEN {1} ELSE f.node.pick

\* the activation on top is in its loop with an iteration left to run
\* (sampleFaultyUnion makes its one draw without a loop)
InLoop(f) ==
  /\ f.phase = "loop"
  /\ f.node.type = "faulty_union" \/ f.attempt < f.node.maxAttempts

\* the rest of an iteration once the child's sample() has returned p
\* (shapeB.contains of a 'difference' built on one child is a TypeError)
Judge(f, idx, p) ==
  IF f.node.type = "difference" /\ Len(f.node.shapes) < 2
  THEN stack' = Pop /\ ret' = RetThrow(f, "TypeError")
  ELSE IF Rejects(f, idx, p)
  THEN stack' = SetTop(Retry(f)) /\ ret' = NoRet
  ELSE stack' = Pop /\ ret' = RetPoint(f, p)

\* the trees sample() is called on.  Leaves: the two rectangles of the union
\* test, the inner circle of the donut test, a covering rectangle and two
\* boxes apart on Z.  Shapes: the stress test's union of a difference and a
\* leaf, a difference whose subtrahend covers it, composites as both operands
\* of a difference and of an intersection, an intersection of disjoint
\* composites, a difference whose first operand throws, a union without
\* children, a difference built on one child, and trees of depth three.
NestLeafA == Rectangle2D(0, 0, Undefined, 2, 2)

NestLeafB == Rectangle2D(1, 0, Undefined, 2, 2)

NestLeafC == Circle2D(0, 0, Undefined, 1, 0)

NestCover == Rectangle2D(0, 0, 0, 4, 4)

NestBoxLow == Box3D(0, 0, 0, 2, 2, 2)

NestBoxHigh == Box3D(0, 0, 3, 2, 2, 2)

NestTreesWith(a) ==
  LET U(ss) == NestedComposite("union", ss, a)
      F(ss) == NestedComposite("faulty_union", ss, a)
      I(ss) == NestedComposite("intersection", ss, a)
      D(ss) == NestedComposite("difference", ss, a)
  IN { U(<<D(<<NestLeafA, NestLeafC>>), NestLeafB>>),
       U(<<NestLeafA, D(<<NestLeafB, NestCover>>)>>),
       D(<<U(<<NestLeafA, NestLeafB>>), I(<<NestLeafA, NestLeafB>>)>>),
       I(<<U(<<NestLeafA, NestLeafB>>), D(<<NestLeafA, NestLeafC>>)>>),
       I(<<U(<<NestBoxLow>>), U(<<NestBoxHigh>>)>>),
       D(<<I(<<NestBoxLow, NestBoxHigh>>), NestLeafA>>),
       U(<<U(<<>>), NestLeafA>>),
       U(<<NestLeafA, D(<<NestLeafB>>)>>),
       F(<<D(<<NestLeafA, NestCover>>), U(<<NestLeafA, NestLeafB>>)>>),
       U(<<D(<<U(<<NestLeafA, NestLeafB>>), NestLeafC>>), NestLeafA>>),
       D(<<NestLeafA, U(<<I(<<NestLeafA, NestLeafB>>), NestLeafC>>)>>) }

NestTrees == UNION {NestTreesWith(a) : a \in 0..MaxAttemptsBound}

InitNest ==
  /\ type = "union"
  /\ shapes = <<>>
  /\ maxAttempts = 0
  /\ pc = "idle"
  /\ attempt = 0
  /\ draws = 0
  /\ cand = NoCand
  /\ result = NoResult
  /\ query = NoQuery
  /\ answer = FALSE
  /\ path = EmptyPath
  /\ ps = NoSample
  /\ wrapped = NoWrapper
  /\ wcall = NoCall
  /\ prim = NoPrim
  /\ pcall = NoPrimCall
  /\ tree \in NestTrees
  /\ stack = <<>>
  /\ ret = NoRet

NestUnchanged ==
  /\ UNCHANGED tree
  /\ UNCHANGED csgVars
  /\ UNCHANGED pathVars
  /\ UNCHANGED wrapVars
  /\ UNCHANGED primVars

\* tree.sample(): the activation of the root
NestCall ==
  /\ stack = <<>>
  /\ ret = NoRet
  /\ stack' = <<Frame(tree)>>
  /\ UNCHANGED ret
  /\ NestUnchanged

\* the code ahead of the loop: sampleIntersection throws on a disjoint bbox
NestStart ==
  /\ stack # <<>>
  /\ Top.phase = "start"
  /\ IF /\ Top.node.type = "intersection"
        /\ BBoxDisjoint(IntersectionBBox(Top.node.shapes, Len(Top.node.shapes)))
     THEN stack' = Pop /\ ret' = RetThrow(Top, "Invalid Intersection")
     ELSE stack' = SetTop([Top EXCEPT !.phase = "loop"]) /\ UNCHANGED ret
  /\ NestUnchanged

\* an iteration of sampleUnion / sampleDifference, or the draw of
\* sampleFaultyUnion, on a child that is a primitive
NestAttemptLeaf ==
  /\ stack # <<>>
  /\ ret = NoRet
  /\ InLoop(Top)
  /\ Top.node.type # "intersection"
  /\ \E idx \in LoopChildren(Top) :
       /\ idx <= Len(Top.node.shapes)
       /\ Top.node.shapes[idx].kind # "composite"
       /\ \E p \in SamplesOf(Top.node.shapes[idx]) :
            IF Top.node.type = "faulty_union"
            THEN stack' = Pop /\ ret' = RetPoint(Drawn(Top), p)
            ELSE Judge(Drawn(Top), idx, p)
  /\ NestUnchanged

\* the same on a child that is a composite: its sample() is activated and
\* the caller waits for it
NestAttemptDescend ==
  /\ stack # <<>>
  /\ ret = NoRet
  /\ InLoop(Top)
  /\ Top.node.type # "intersection"
  /\ \E idx \in LoopChildren(Top) :
       /\ idx <= Len(Top.node.shapes)
       /\ Top.node.shapes[idx].kind = "composite"
       /\ stack' = Append(SetTop([Drawn(Top) EXCEPT !.phase = "wait", !.idx = idx,
                                                    !.after = "attempt"]),
                          Frame(Top.node.shapes[idx]))
  /\ UNCHANGED ret
  /\ NestUnchanged

\* shapes[idx].sample() on a composite without children: a TypeError
NestNoChild ==
  /\ stack # <<>>
  /\ ret = NoRet
  /\ Top.phase = "loop"
  /\ Top.node.type # "intersection"
  /\ Len(Top.node.shapes) = 0
  /\ stack' = Pop
  /\ ret' = RetThrow(Top, "TypeError")
  /\ NestUnchanged

\* an iteration of sampleIntersection: a candidate of the bbox, kept when
\* every child contains it
NestIntersectionAttempt ==
  /\ stack # <<>>
  /\ ret = NoRet
  /\ InLoop(Top)
  /\ Top.node.type = "intersection"
  /\ \E p \in BoxCandidates(IntersectionBBox(Top.node.shapes, Len(Top.node.shapes))) :
       IF \A i \in 1..Len(Top.node.shapes) : NodeContains(Top.node.shapes[i], p)
       THEN stack' = Pop /\ ret' = RetPoint(Drawn(Top), p)
       ELSE stack' = SetTop(Retry(Drawn(Top))) /\ UNCHANGED ret
  /\ NestUnchanged

\* the loop is left without a point
Exhausted(f) ==
  /\ f.phase = "loop"
  /\ f.node.type # "faulty_union"
  /\ f.attempt >= f.node.maxAttempts

\* sampleIntersection after its loop: throw
NestIntersectionFailed ==
  /\ stack # <<>>
  /\ ret = NoRet
  /\ Exhausted(Top)
  /\ Top.node.type = "intersection"
  /\ stack' = Pop
  /\ ret' = RetThrow(Top, "Intersection sampling failed")
  /\ NestUnchanged

\* sampleUnion / sampleDifference after the loop: return shapes[0].sample(),
\* shapes[0] a primitive
NestFallbackLeaf ==
  /\ stack # <<>>
  /\ ret = NoRet
  /\ Exhausted(Top)
  /\ Top.node.type # "intersection"
  /\ Len(Top.node.shapes) > 0
  /\ Top.node.shapes[1].kind # "composite"
  /\ \E p \in SamplesOf(Top.node.shapes[1]) :
       stack' = Pop /\ ret' = RetPoint(Drawn(Top), p)
  /\ NestUnchanged

\* the same, shapes[0] a composite
NestFallbackDescend ==
  /\ stack # <<>>
  /\ ret = NoRet
  /\ Exhausted(Top)
  /\ Top.node.type # "intersection"
  /\ Len(Top.node.shapes) > 0
  /\ Top.node.shapes[1].kind = "composite"
  /\ stack' = Append(SetTop([Drawn(Top) EXCEPT !.phase = "wait", !.idx = 1,
                                               !.after = "fallback"]),
                     Frame(Top.node.shapes[1]))
  /\ UNCHANGED ret
  /\ NestUnchanged

\* the child's sample() has ended: its exception leaves the caller too, its
\* point is returned (fallback, faulty union) or judged by the loop
NestResume ==
  /\ stack # <<>>
  /\ Top.phase = "wait"
  /\ ret.kind # "none"
  /\ IF ret.kind = "throw"
     THEN stack' = Pop /\ ret' = RetThrow(Top, ret.msg)
     ELSE IF Top.after = "fallback" \/ Top.node.type = "faulty_union"
     THEN stack' = Pop /\ ret' = RetPoint(Top, ret.p)
     ELSE Judge(Top, Top.idx, ret.p)
  /\ NestUnchanged

NextNest ==
  \/ NestCall
  \/ NestStart
  \/ NestAttemptLeaf
  \/ NestAttemptDescend
  \/ NestNoChild
  \/ NestIntersectionAttempt
  \/ NestIntersectionFailed
  \/ NestFallbackLeaf
  \/ NestFallbackDescend
  \/ NestResume

SpecNest == InitNest /\ [][NextNest]_vars

\* sample() is synchronous code on one thread: once called, every step of
\* it that can run does run
SpecNestFair == SpecNest /\ WF_vars(NextNest)

(***************************************************************************)
(* Properties of CompositeShape                                            *)
(***************************************************************************)
\* the children that contain p (default epsilon)
Containing(p) == {j \in 1..Len(shapes) : ContainsPrim(shapes[j], p, 0)}

\* C1: in sampleUnion a candidate drawn from child i leaves the retry loop
\* as the result only if no child j < i contains it, in which case i is the
\* lowest-indexed child containing it; a candidate that an earlier child
\* contains is rejected and the loop goes on.
C1_UnionEarlierIndexCheck ==
  (type = "union" /\ draws > 0 /\ result.via # "fallback") =>
    LET covered == \E j \in 1..(cand.idx - 1) : j \in Containing(cand.p) IN
    /\ covered => (pc = "loop" /\ result.kind = "none" /\ attempt >= 1)
    /\ result.kind = "point" =>
         (result.p = cand.p /\ ~covered /\ cand.idx = SetMin(Containing(result.p)))

\* a candidate of the third child is accepted after an earlier rejection
C1_Witness ==
  /\ type = "union" /\ pc = "done" /\ result.kind = "point" /\ result.via = "loop"
  /\ cand.idx = 3 /\ attempt >= 1

\* C2 (as claimed): every point a Difference [A, B] returns is in A and not in B.
C2_DifferenceSampleInDifference ==
  (type = "difference" /\ Len(shapes) = 2 /\ pc = "done" /\ result.kind = "point") =>
    (ContainsPrim(shapes[1], result.p, 0) /\ ~ContainsPrim(shapes[2], result.p, 0))

\* the bounding box of child i contains p on X and Y, and on Z when the
\* child's bbox has a Z extent
InBBox(p, b) ==
  /\ JLe(b.minX, p.x) /\ JLe(p.x, b.maxX)
  /\ JLe(b.minY, p.y) /\ JLe(p.y, b.maxY)
  /\ IsNum(b.minZ) => (JLe(b.minZ, p.z) /\ JLe(p.z, b.maxZ))

\* C3: Intersection.sample() returns a candidate only if every child
\* contains it, every candidate lies in every child's bounding box, and
\* when no candidate passed within maxAttempts it throws.
C3_IntersectionSound ==
  type = "intersection" =>
    /\ draws > 0 => \A i \in 1..Len(shapes) : InBBox(cand.p, BBoxOf(shapes[i]))
    /\ result.kind = "point" =>
         (result.p = cand.p /\ \A i \in 1..Len(shapes) : i \in Containing(result.p))
    /\ (pc = "done" /\ attempt = maxAttempts) => result.kind = "throw"

\* all candidates of an overlapping pair were rejected and the call threw
C3_Witness ==
  /\ type = "intersection" /\ pc = "done" /\ Len(shapes) >= 2
  /\ maxAttempts >= 2 /\ draws = maxAttempts /\ result = Thrown("exhausted")

\* C4: every point Union.sample() returns, from the loop or from the
\* fallback, is contained by the union.
C4_UnionSampleContained ==
  (type = "union" /\ result.kind = "point") => CompositeContains(type, shapes, result.p, 0)

\* the fallback of a union of several children returned a point
C4_Witness ==
  /\ type = "union" /\ pc = "done" /\ result.kind = "point" /\ result.via = "fallback"
  /\ maxAttempts >= 1 /\ Len(shapes) >= 2

\* two bounding boxes are apart on X, Y or Z (a 2D bbox lies in the plane z = 0)
Apart(a, b) ==
  \/ a.maxX < b.minX \/ b.maxX < a.minX
  \/ a.maxY < b.minY \/ b.maxY < a.minY
  \/ Coalesce(a.maxZ, 0) < Coalesce(b.minZ, 0) \/ Coalesce(b.maxZ, 0) < Coalesce(a.minZ, 0)

SomeChildrenApart ==
  \E i, j \in 1..Len(shapes) : Apart(BBoxOf(shapes[i]), BBoxOf(shapes[j]))

C6_DifferenceExhaustionRaises ==
  (type = "difference" /\ Len(shapes) = 2 /\ pc = "done"
     /\ maxAttempts >= 1 /\ attempt = maxAttempts) =>
    result.kind = "throw"

C8_ContainsIsBooleanCombination ==
  (pc = "answered" /\ result.kind # "throw") =>
    LET in(i) == ContainsPrim(shapes[i], query.p, query.eps) IN
    /\ type \in {"union", "faulty_union"} => (answer <=> \E i \in 1..Len(shapes) : in(i))
    /\ type = "intersection" => (answer <=> \A i \in 1..Len(shapes) : in(i))
    /\ type = "difference" => (answer <=> (in(1) /\ (Len(shapes) >= 2 => ~in(2))))

\* a difference answered true for a point that only the tolerance admits
C8_Witness ==
  /\ pc = "answered" /\ type = "difference" /\ Len(shapes) = 2 /\ answer
  /\ query.eps = 1 /\ ~ContainsPrim(shapes[1], query.p, 0)

(***************************************************************************)
(* Properties of Path1D                                                    *)
(***************************************************************************)
\* the last sample() call went to a baked segment with a target inside its table
BakedHit ==
  /\ ps.cls = "baked" /\ IsNum(ps.local)
  /\ 0 <= ps.local /\ ps.local <= path.segments[ps.low].totalLength

\* C9: for a target d inside the table, _sampleBaked picks the cell i in
\* 1..N with lut[i-1] <= d <= lut[i] and a parameter t in [(i-1)/N, i/N]
\* (u = N * t in [i-1, i]); the next larger target gets a parameter at
\* least as large; on the cubic the returned x is within one cell's chord
\* of d.
C9_BakedSampleBrackets ==
  BakedHit =>
    LET seg == path.segments[ps.low]
        d == ps.local
        i == ps.i
    IN /\ i \in 1..seg.samples
       /\ seg.lut[i - 1] <= d /\ d <= seg.lut[i]
       /\ QLe(Q(i - 1, 1), ps.u) /\ QLe(ps.u, Q(i, 1))
       /\ d + 1 <= seg.totalLength => QLe(ps.u, SampleBaked(seg, d + 1).u)
       /\ seg.f = "cubic" =>
            /\ QLe(ps.pt.x, Q(d + seg.lut[i] - seg.lut[i - 1], 1))
            /\ QLe(Q(d - (seg.lut[i] - seg.lut[i - 1]), 1), ps.pt.x)

\* a target strictly inside the last cell of the cubic, behind another segment
C9_Witness ==
  /\ BakedHit /\ ps.low >= 1
  /\ path.segments[ps.low].f = "cubic"
  /\ ps.i = LutResolution /\ ps.u.d # 1
  /\ ps.pt.x # Q(ps.local, 1)

\* an arc descriptor { center, radius, start, end } with numeric angles
IsArcDescriptor(seg) ==
  /\ seg.center.t = "obj" /\ IsNum(seg.radius) /\ seg.radius > 0
  /\ seg.start.t = "num" /\ seg.end.t = "num"

\* end - start, plus a full turn when end < start
AngularSpan(seg) ==
  IF seg.end.v < seg.start.v THEN seg.end.v - seg.start.v + TwoPi ELSE seg.end.v - seg.start.v

\* C10 (as claimed): every arc descriptor with numeric start and end is
\* given the length radius * span, and a sample that falls on it is taken
\* by the arc sampler and lies on the circle.
C10_ArcsAreArcs ==
  \A k \in DOMAIN path.segments :
    IsArcDescriptor(path.segments[k]) =>
      LET seg == path.segments[k]
          before == IF k > 0 THEN path.cumulativeLengths[k - 1] ELSE 0
          dx == QAdd(ps.pt.x, QInt(-FieldOf(seg.center, "x")))
          dy == QAdd(ps.pt.y, QInt(-FieldOf(seg.center, "y")))
      IN /\ JSub(path.cumulativeLengths[k], before) = seg.radius * AngularSpan(seg)
         /\ (ps.cls # "none" /\ ps.low = k) =>
              /\ ps.cls = "arc"
              /\ QAdd(QMul(dx, dx), QMul(dy, dy)) = Q(seg.radius * seg.radius, 1)

\* the box enclosing the points of the segments of a path that has segments
SegmentsBox(pth) == PathBBox(pth.segments, Cardinality(DOMAIN pth.segments))

\* the last sample() call was made on a path of segments that are all degenerate
ZeroLengthSampled ==
  /\ path.totalLength = 0 /\ Cardinality(DOMAIN path.segments) >= 1
  /\ ps.cls # "none"

\* C11 (as claimed): on a path whose segments are all degenerate, sample()
\* returns the center of the box enclosing the segments' points, having
\* searched no segment and divided by no length.
C11_ZeroLengthReturnsBBoxCenter ==
  ZeroLengthSampled =>
    LET b == SegmentsBox(path) IN
    /\ ps.cls = "center"
    /\ ps.pt = QPoint(QHalfSum(b.min.x, b.max.x), QHalfSum(b.min.y, b.max.y),
                      QHalfSum(b.min.z, b.max.z))

\* the length of a segment as its descriptor states it: the chord sum of a
\* baked function, radius * angular span of a { center, radius, .. } arc,
\* the distance between the end points of a line
DescribedLength(seg) ==
  IF seg.type = "baked_parametric" THEN seg.totalLength
  ELSE IF seg.center.t = "obj" THEN JMul(seg.radius, ArcDelta(seg))
  ELSE LineLength(seg)

RECURSIVE DescribedLengthSum(_, _)
\* the sum of the described lengths of segments 0 .. n-1
DescribedLengthSum(segs, n) ==
  IF n = 0 THEN 0 ELSE JAdd(DescribedLengthSum(segs, n - 1), DescribedLength(segs[n - 1]))

\* C12 (as claimed): cumulativeLengths has one entry per segment, is
\* non-decreasing, entry i is the sum of the lengths of segments 0..i, and
\* totalLength is the last entry.
C12_CumulativeLengthsArePrefixSums ==
  LET n == Cardinality(DOMAIN path.segments)
      cum == path.cumulativeLengths
  IN /\ DOMAIN cum = 0..(n - 1)
     /\ \A i \in 1..(n - 1) : JLe(cum[i - 1], cum[i])
     /\ \A i \in 0..(n - 1) : cum[i] = DescribedLengthSum(path.segments, i + 1)
     /\ n >= 1 => path.totalLength = cum[n - 1]

\* v lies in [lo, hi]; an absent coordinate is read as 0, as _updateBBox reads it
WithinExtent(v, lo, hi) ==
  LET w == IF v = QUndef THEN Q(0, 1) ELSE v IN QLe(lo, w) /\ QLe(w, hi)

\* C13 (as claimed): the point sample() returns lies inside the path's bbox
\* on X, Y and Z.
C13_SampleInsideBBox ==
  ps.cls # "none" =>
    /\ WithinExtent(ps.pt.x, path.bbox.min.x, path.bbox.max.x)
    /\ WithinExtent(ps.pt.y, path.bbox.min.y, path.bbox.max.y)
    /\ WithinExtent(ps.pt.z, path.bbox.min.z, path.bbox.max.z)

(***************************************************************************)
(* Properties of the construction of a CompositeShape                      *)
(***************************************************************************)
\* C19 (as claimed): a composite object exists only with a valid number of
\* children: exactly 2 for a difference, at least 1 for a union or an
\* intersection; with any other number the constructor throws.
C19_InvalidChildCountFailsConstruction ==
  pc \notin {"new", "failed"} =>
    /\ type = "difference" => Len(shapes) = 2
    /\ type \in {"union", "intersection"} => Len(shapes) >= 1

\* C20 (as claimed): sample() of a union whose children's weights sum to
\* zero throws.
C20_ZeroWeightUnionRaises ==
  (type = "union" /\ TotalWeight(shapes) = 0 /\ pc = "done") => result.kind = "throw"

(***************************************************************************)
(* Properties of RotatedShape and TranslatedShape                          *)
(***************************************************************************)
\* the last call was sample() on a RotatedShape
RotatedSampled == wrapped.kind = "rotated" /\ wcall.op = "sample"

\* C14 (as claimed): the mapping of contains() undoes the rotation of
\* sample() about the same center: the base point q, rotated forward and
\* mapped back, is q again, and the rotated shape contains its sample
\* whenever the base contains the base sample.
C14_ContainsInvertsSample ==
  RotatedSampled =>
    /\ RotateInverse(wrapped.m, wrapped.center, wcall.out) = wcall.q
    /\ (HasContains(wrapped.base) /\ ShapeContains(wrapped.base, wcall.q, 0)) =>
         ShapeContains(wrapped, wcall.out, 0)

\* C15 (as claimed): a RotatedShape with pitch = yaw = roll = 0 returns the
\* base's sampled point unchanged and answers contains(p) as the base does.
C15_ZeroRotationIsIdentity ==
  (wrapped.kind = "rotated" /\ wrapped.m = RotationMatrix(0, 0, 0)) =>
    /\ wcall.op = "sample" => wcall.out = wcall.q
    /\ (wcall.op = "contains" /\ HasContains(wrapped.base)) =>
         /\ ~wcall.threw
         /\ wcall.ans = ShapeContains(wrapped.base, wcall.p, wcall.eps)

\* the wrapper is a translation by v2 of a translation by v1
NestedTranslation == wrapped.kind = "translated" /\ wrapped.base.kind = "translated"

\* the translation of the same base by v1 + v2
SingleTranslation ==
  TranslatedShape(wrapped.base.base,
                  wrapped.base.offset.x + wrapped.offset.x,
                  wrapped.base.offset.y + wrapped.offset.y,
                  wrapped.base.offset.z + wrapped.offset.z)

ShiftedBaseBBox ==
  LET b == BBoxOf(wrapped.base)
      o == wrapped.offset
      baseZ == Coalesce(CenterOf(wrapped.base).z, 0)
  IN [minX |-> JAdd(b.minX, o.x), maxX |-> JAdd(b.maxX, o.x),
      minY |-> JAdd(b.minY, o.y), maxY |-> JAdd(b.maxY, o.y),
      minZ |-> JAdd(Coalesce(b.minZ, baseZ), o.z),
      maxZ |-> JAdd(Coalesce(b.maxZ, baseZ), o.z)]

\* C17 (as claimed): a TranslatedShape has the area and volume of its base,
\* its bbox is the base bbox shifted by (dx, dy, dz), and every point its
\* sample() returns lies inside its bbox.
C17_TranslationShiftsBBox ==
  wrapped.kind = "translated" =>
    /\ AreaOf(wrapped) = AreaOf(wrapped.base)
    /\ VolumeOf(wrapped) = VolumeOf(wrapped.base)
    /\ BBoxOf(wrapped) = ShiftedBaseBBox
    /\ wcall.op = "sample" =>
         /\ JLe(wrapped.bbox.minX, wcall.out.x) /\ JLe(wcall.out.x, wrapped.bbox.maxX)
         /\ JLe(wrapped.bbox.minY, wcall.out.y) /\ JLe(wcall.out.y, wrapped.bbox.maxY)
         /\ JLe(wrapped.bbox.minZ, wcall.out.z) /\ JLe(wcall.out.z, wrapped.bbox.maxZ)

\* C18 (as claimed): a RotatedShape has the volume and the area of its base,
\* and so the weight sampleUnion gives it is the weight of the base.
C18_RotationKeepsMeasure ==
  wrapped.kind = "rotated" =>
    /\ VolumeOf(wrapped) = VolumeOf(wrapped.base)
    /\ AreaOf(wrapped) = AreaOf(wrapped.base)
    /\ Weight(wrapped) = Weight(wrapped.base)

\* a sample was drawn for a numeric target of a path of non-zero length
SegmentSearched == ps # NoSample /\ IsNum(ps.target) /\ path.totalLength # 0

\* the length of segment i as the cumulative table records it
TableLength(i) ==
  path.cumulativeLengths[i] - (IF i > 0 THEN path.cumulativeLengths[i - 1] ELSE 0)

\* C26: for every target in [0, totalLength] the binary search of sample()
\* selects the least index i with cumulativeLengths[i] >= target, the local
\* offset handed to the segment sampler lies in [0, length of segment i],
\* and the interpolation parameter of a line segment lies in [0, 1].
C26_SearchSelectsLeastSegment ==
  SegmentSearched =>
    /\ ps.low \in DOMAIN path.cumulativeLengths
    /\ path.cumulativeLengths[ps.low] >= ps.target
    /\ \A j \in 0..(ps.low - 1) : path.cumulativeLengths[j] < ps.target
    /\ 0 <= ps.local /\ ps.local <= TableLength(ps.low)
    /\ ps.local <= CalculateLength(path.segments[ps.low])
    /\ ps.cls = "line" => QLe(Q(0, 1), ps.u) /\ QLe(ps.u, Q(1, 1))

\* a target equal to a cumulative entry that is not the last: it belongs to
\* the segment that ends there, at its full length
C26_Witness ==
  /\ SegmentSearched
  /\ ps.low + 1 \in DOMAIN path.cumulativeLengths
  /\ ps.low >= 1
  /\ path.cumulativeLengths[ps.low] = ps.target
  /\ ps.local = TableLength(ps.low) /\ ps.local > 0
  /\ ps.cls = "line" /\ ps.u = Q(1, 1)

(***************************************************************************)
(* Properties of composites: coordinates and cached measure                *)
(***************************************************************************)
\* a 2D primitive: its center and bbox carry no z
Is2D(s) == s.kind \in {"rect", "circle"}

\* a constructed composite all of whose children are 2D shapes
CompositeOf2D ==
  /\ pc \notin {"new", "failed"}
  /\ Len(shapes) >= 1
  /\ \A i \in 1..Len(shapes) : Is2D(shapes[i])

\* C28 (as claimed): a composite of any type built from 2D children has a
\* center with numeric x, y and z, and every point its sample() returns has
\* numeric x and y and z = 0.
C28_CompositeOf2DHasNumericZ ==
  CompositeOf2D =>
    LET c == CompositeCenter(type, shapes)
    IN /\ QIsNum(c.x) /\ QIsNum(c.y) /\ QIsNum(c.z)
       /\ result.kind = "point" =>
            IsNum(result.p.x) /\ IsNum(result.p.y) /\ result.p.z = 0

\* the bounding box of a child has min <= max on every axis it has
WellFormedBBox(s) ==
  LET b == BBoxOf(s)
  IN /\ b.minX <= b.maxX /\ b.minY <= b.maxY
     /\ IsNum(b.minZ) /\ IsNum(b.maxZ) => b.minZ <= b.maxZ

\* the measure a child contributes, s.volume ?? s.area ?? 0, is not negative
NonNegativeMeasure(s) == Coalesce(VolumeOf(s), Coalesce(AreaOf(s), 0)) >= 0

\* C30 (as claimed): for every composite type, when every child has a
\* well-formed bounding box and a non-negative measure, the volume/area
\* the constructor caches is a number that is not negative.
C30_CachedMeasureNonNegative ==
  (/\ pc \notin {"new", "failed"}
   /\ \A i \in 1..Len(shapes) : WellFormedBBox(shapes[i]) /\ NonNegativeMeasure(shapes[i])) =>
    LET v == CalculateVolume(type, shapes)
    IN QIsNum(v) /\ QLe(Q(0, 1), v)

(***************************************************************************)
(* Properties of the primitive shapes                                      *)
(***************************************************************************)
\* sample() of a triangle that is not degenerate has returned
TriangleSampled ==
  /\ prim.kind = "triangle" /\ pcall.op = "sample"
  /\ Cross(prim.a, prim.b, prim.c) # 0

\* C22: for every non-degenerate triangle, of either orientation, the
\* weights u, v and 1 - u - v used by sample() after the fold are not
\* negative, and contains() accepts the point sample() returns.
C22_TriangleSampleInside ==
  TriangleSampled =>
    LET f == Fold(pcall.u, pcall.v)
    IN /\ QLe(Q(0, 1), f[1]) /\ QLe(Q(0, 1), f[2])
       /\ QLe(Q(0, 1), QSub(QSub(Q(1, 1), f[1]), f[2]))
       /\ TriangleContains(prim, pcall.out, 0)

\* a clockwise triangle sampled with u + v > 1, so that the fold is taken
\* and the point is strictly inside
C22_Witness ==
  /\ TriangleSampled
  /\ Cross(prim.a, prim.b, prim.c) < 0
  /\ QLt(Q(1, 1), QAdd(pcall.u, pcall.v))
  /\ Fold(pcall.u, pcall.v) # <<pcall.u, pcall.v>>
  /\ pcall.out \notin {QPoint(QInt(w.x), QInt(w.y), QInt(0)) : w \in {prim.a, prim.b, prim.c}}

\* C24 (as claimed): a constructed polygon has a triangle list that is not
\* empty, and its sample() reads a triangle at an index inside the list and
\* returns a point.
C24_PolygonHasTriangles ==
  prim.kind = "polygon" =>
    /\ Len(prim.triangles) >= 1
    /\ pcall.op = "sample" =>
         /\ ~pcall.threw
         /\ pcall.idx \in 0..(Len(prim.triangles) - 1)
         /\ QIsNum(pcall.out.x) /\ QIsNum(pcall.out.y)

\* sample() of a sector with positive radii has returned
SectorSampled ==
  /\ prim.kind = "sector" /\ prim.class \in {"EllipseSector2D", "CircleSector2D"}
  /\ prim.outerRx > 0 /\ prim.outerRy > 0
  /\ pcall.op = "sample"

\* C21 (as claimed): for every start/end pair the constructor accepts,
\* wraparound included, contains() accepts every point that sample() of an
\* EllipseSector2D or a CircleSector2D returns.
C21_SectorContainsItsSamples ==
  SectorSampled => SectorContains(prim, pcall.out, 0)

\* a primitive with a radius or a dimension that is zero or negative
Degenerate(s) ==
  CASE s.kind = "rect" -> s.width <= 0 \/ s.height <= 0
    [] s.kind = "circle" -> s.radius <= 0
    [] s.kind = "box" -> s.width <= 0 \/ s.height <= 0 \/ s.depth <= 0
    [] s.kind = "sector" -> s.outerRx <= 0 \/ s.outerRy <= 0
    [] s.kind = "ellipsoid" -> s.rx <= 0 \/ s.ry <= 0 \/ s.rz <= 0
    [] OTHER -> FALSE

\* the area of a 2D primitive, the volume of a 3D one
MeasureOf(s) ==
  CASE s.kind \in {"rect", "circle"} -> QInt(AreaOf(s))
    [] s.kind = "box" -> QInt(VolumeOf(s))
    [] s.kind = "sector" -> s.area
    [] OTHER -> s.volume

\* C23 (as claimed): a primitive built with a zero or negative radius or
\* dimension has area/volume 0, and sample() returns its center with
\* numeric coordinates.
C23_DegenerateSamplesItsCenter ==
  Degenerate(prim) =>
    /\ MeasureOf(prim) = Q(0, 1)
    /\ pcall.op = "sample" =>
         /\ QIsNum(pcall.out.x) /\ QIsNum(pcall.out.y) /\ QIsNum(pcall.out.z)
         /\ pcall.out = QPoint(QInt(prim.cx), QInt(prim.cy), QInt(Coalesce(prim.cz, 0)))

\* C29 (as claimed): contains() of a cone accepts every point its sample()
\* returns, for solid and hollow cones, also when the rejection loop of the
\* hollow sampler has used up its attempts.
C29_ConeContainsItsSamples ==
  (prim.kind = "cone" /\ pcall.op = "sample") => ConeContains(prim, pcall.out, 0)

(***************************************************************************)
(* Properties of nested composites                                         *)
(***************************************************************************)
\* the draws of an activation stay within maxAttempts candidates and one fallback
WithinDraws(f) == f.draws <= f.node.maxAttempts + 1

\* sample() of the root has returned a point or raised
NestEnded == stack = <<>> /\ ret.kind # "none"

\* C27: a CompositeShape.sample() call on a tree of nested composites ends,
\* with a point or an exception, and every activation of sample() on a
\* composite of the tree makes at most maxAttempts candidate draws and at
\* most one fallback draw
C27_NestedSampleTerminates ==
  /\ [](\A i \in 1..Len(stack) : WithinDraws(stack[i]))
  /\ [](ret.kind # "none" => ret.draws <= tree.maxAttempts + 1)
  /\ <>NestEnded

\* in a tree of depth three, the root and the composite below it have each
\* used up their maxAttempts candidate draws and wait for their fallback draw
C27_Witness ==
  /\ Len(stack) = 3
  /\ tree.maxAttempts = MaxAttemptsBound
  /\ \A i \in 1..2 : /\ stack[i].after = "fallback"
                     /\ stack[i].attempt = stack[i].node.maxAttempts
                     /\ stack[i].draws = stack[i].node.maxAttempts + 1

====
